---- MODULE Spec2Model ----
(***************************************************************************)
(* The multipart-upload protocol of the s3api middleware (oio-swift) over  *)
(* a key/container object store.                                           *)
(*                                                                         *)
(* The store is the segments container "bucket+segments" (marker objects   *)
(* key/uploadId and part objects key/uploadId/partNumber) and the objects  *)
(* of the bucket itself (the manifests written by Complete).  Every S3     *)
(* request runs on its own execution context (a worker); one action of the *)
(* model is one backend call of a request together with the local code     *)
(* around it, so that requests interleave exactly at the store's           *)
(* single-object operations.                                               *)
(***************************************************************************)
EXTENDS Integers, Sequences, FiniteSets, TLC

\* ---------------------------------------------------------------- bounds
\* Number of upload ids unique_id() hands out before Initiate is refused.
MaxUploads == 2
\* The configured max_upload_part_num (s3api.py:98, default 1000).
max_upload_part_num == 2
\* Longest <CompleteMultipartUpload> part list a client sends.
MaxListLen == 2
\* Number of requests in flight at the same time.
NumWorkers == 2
\* Number of requests received in one behaviour.
MaxRequests == 5
\* Greatest number of parts one ListParts returns (max_parts_listing).
max_parts_listing == 2
\* Greatest number of filters of a pipeline.
MaxPipeline == 4
\* Greatest number of keys of one Delete Multiple Objects request.
max_multi_delete_objects == 4
\* Number of DELETEs one Delete Multiple Objects request has in progress.
multi_delete_concurrency == 2
\* Greatest number of chunks the store sends during one manifest PUT.
MaxBeats == 2
\* The number of Delete Multiple Objects requests of a behaviour.
MaxDeleteRequests == 1
\* Greatest number of uploads one ListUploads returns.
DEFAULT_MAX_UPLOADS == 2

\* The configured min_segment_size (set to 1 by the tests' setUp).
min_segment_size == 1

Workers == 1..NumWorkers
UploadIds == 1..MaxUploads
Keys == {"object"}
Buckets == {"bucket", "nobucket"}
\* S3TestCase.setUp registers HEAD /v1/AUTH_test/bucket only.
ExistingBuckets == {"bucket"}

\* What the HEAD of a bucket answers: found or not.
\* (BucketExistsAlways: every bucket is taken to exist.)
BucketExistsAlways(b) == TRUE
BucketExists(b) == b \in ExistingBuckets
\* Request bodies of UploadPart: byte strings.
Payloads == {<<>>, <<1>>}
\* The body of the copy source /src_bucket/src_obj.
SrcPayload == <<1>>

\* ------------------------------------------------------- hashes and ETags
\* md5 is modelled as a collision-free function on byte strings: the digest
\* carries its input behind a marker byte that no payload contains.
MD5(bytes) == <<255>> \o bytes

\* hexdigest(): two hex digits (values 0..15) per byte.
HexDigest(d) ==
    [i \in 1..(2 * Len(d)) |->
        IF i % 2 = 1 THEN d[(i + 1) \div 2] \div 16 ELSE d[i \div 2] % 16]

\* binascii.a2b_hex(): one byte per two hex digits.
A2bHex(h) == [i \in 1..(Len(h) \div 2) |-> 16 * h[2 * i - 1] + h[2 * i]]

\* The hash the store keeps for an object with this body (its Swift etag).
PartHash(body) == HexDigest(MD5(body))

Hashes == {PartHash(p) : p \in Payloads}

\* An S3 ETag string: the hex digest, and the number N of a "-N" suffix
\* (0 when the ETag has no suffix).
PlainETag(h) == [hex |-> h, count |-> 0]

RECURSIVE ConcatRaw(_)
ConcatRaw(etags) ==
    IF etags = <<>> THEN <<>>
    ELSE A2bHex(Head(etags)) \o ConcatRaw(Tail(etags))

\* s3_etag of Complete: md5 over the raw bytes of the client-given ETags in
\* the client-given order, then "-<number of parts>".
\* (S3ETagReversed: the same over the list read backwards.)
S3ETagReversed(parts) ==
    [hex |-> HexDigest(MD5(ConcatRaw(
                [i \in 1..Len(parts) |-> parts[Len(parts) + 1 - i].etag]))),
     count |-> Len(parts)]
S3ETag(parts) ==
    [hex |-> HexDigest(MD5(ConcatRaw([i \in 1..Len(parts) |-> parts[i].etag]))),
     count |-> Len(parts)]

\* ------------------------------------------------------------ object names
\* Objects of the segments container: part = 0 names the marker key/uploadId,
\* part = n > 0 the part object key/uploadId/n.
SegName(k, u, n) == [key |-> k, uid |-> u, part |-> n]
MarkerName(k, u) == SegName(k, u, 0)

\* The marker of the upload a request names.
MarkerOf(r) == MarkerName(r.key, r.uid)

\* The part lists a client may send with Complete.
PartEntries == [pn : 1..(max_upload_part_num + 1), etag : Hashes]
PartLists == UNION {[1..n -> PartEntries] : n \in 0..MaxListLen}

RECURSIVE SortedSeq(_)
\* The numbers of S as an ascending sequence.
SortedSeq(S) ==
    IF S = {} THEN <<>>
    ELSE LET m == CHOOSE x \in S : \A y \in S : x <= y
         IN <<m>> \o SortedSeq(S \ {m})

\* ------------------------------------------------------------------ state
VARIABLES
    segments,    \* the segments container: object name -> [hash, bytes, meta]
    manifest,    \* the bucket: key -> the manifest written there, or NoObject
    nextId,      \* number of upload ids unique_id() has generated
    req,         \* worker -> the request it is handling and its progress
    terminated,  \* upload ids for which a Complete or an Abort reported success
    nreq,        \* number of requests received so far
    orphans,     \* part objects written while their upload had no marker
    replaced,    \* part objects that replaced an object with another hash
    given,       \* upload id -> the metadata its Initiate was sent with
    segcontainer \* whether the segments container of the bucket exists

vars ==
    <<segments, manifest, nextId, req, terminated, nreq, orphans, replaced,
      given, segcontainer>>

NoETag == [hex |-> <<>>, count |-> 0]
NoObject == [uid |-> 0, segs |-> <<>>, etag |-> NoETag, meta |-> ""]

\* The content-type and user metadata a client sends with a request, as one
\* value.
Metas == {"baz/quux foo=bar", "text/plain foo=qux"}
\* The content-type the store keeps for a part.
PartMeta == "application/octet-stream"

\* What a request says about its body: whether it carries Content-Length,
\* whether it is sent with Transfer-Encoding: chunked, and how its Content-MD5
\* relates to the body.
BodyHeaders ==
    [cl : BOOLEAN, te : BOOLEAN, md5 : {"absent", "match", "mismatch"},
     xml : {TRUE}]
NoHdr == [cl |-> TRUE, te |-> FALSE, md5 |-> "absent", xml |-> TRUE]

\* The same for a body that is no XML document (xml false).
MalformedHeaders == {[h EXCEPT !.xml = FALSE] : h \in BodyHeaders}

\* The message of an error response, where the model keeps it: the text the
\* store gives for a segment that is too small names the segment and the
\* minimum.
NoMsg == [seg |-> 0, least |-> 0]

NoReq ==
    [op |-> "idle", pc |-> "idle", bucket |-> "", key |-> "", uid |-> 0,
     pn |-> 0, body |-> <<>>, copy |-> "", parts |-> <<>>, todo |-> <<>>,
     hdr |-> NoHdr, meta |-> "", info |-> "", ended |-> {},
     absorbed |-> FALSE, status |-> "",
     msg |-> NoMsg,
     etag |-> NoETag,
     partNumber |-> <<>>, mp |-> <<>>, pnm |-> <<>>, maxn |-> 0, marker |-> 0,
     truncated |-> FALSE, next |-> 0,
     keymarker |-> "", uidmarker |-> 0, prefix |-> <<>>, delimiter |-> <<>>,
     limit |-> 0, qmarker |-> <<>>, prefixes |-> <<>>, nextkey |-> "",
     condsent |-> <<>>, beats |-> 0, out |-> <<>>, http |-> "",
     dkeys |-> <<>>, quiet |-> FALSE, issued |-> 0, flight |-> {},
     queue |-> <<>>, results |-> <<>>, round |-> <<>>, inorder |-> TRUE,
     controller |-> "", method |-> "", transid |-> FALSE, raised |-> "",
     resp |-> "", logged |-> FALSE, acl |-> FALSE, ran |-> FALSE,
     idhdr |-> FALSE, answers |-> <<>>,
     dbody |-> [shape |-> "", md5bad |-> FALSE, ver |-> 0, head |-> ""],
     vid |-> "", history |-> FALSE, slo |-> TRUE, query |-> "None",
     pipeline |-> <<>>, required |-> <<>>, slo_enabled |-> FALSE,
     conf |-> [file |-> FALSE, auth_pipeline_check |-> FALSE,
               allow_multipart_uploads |-> FALSE],
     sent |-> "", backend |-> "",
     listing |-> <<>>, calls |-> <<>>]

Init ==
    /\ segments = <<>>
    /\ manifest = [k \in Keys |-> NoObject]
    /\ nextId = 0
    /\ req = [w \in Workers |-> NoReq]
    /\ terminated = {}
    /\ nreq = 0
    /\ orphans = {}
    /\ replaced = {}
    /\ given = <<>>
    /\ segcontainer = FALSE

Exists(name) == name \in DOMAIN segments

\* PUT of one object of the segments container (create or overwrite).
\* (PutSegmentKeep: a PUT that leaves an existing object as it is.)
PutSegmentKeep(name, obj) ==
    [n \in DOMAIN segments \cup {name} |->
        IF n \in DOMAIN segments THEN segments[n] ELSE obj]
PutSegment(name, obj) ==
    [n \in DOMAIN segments \cup {name} |-> IF n = name THEN obj ELSE segments[n]]

\* DELETE of one object of the segments container.
DeleteSegment(name) == [n \in DOMAIN segments \ {name} |-> segments[n]]

\* The request of worker w ends with this status.
Finish(r, st) == [r EXCEPT !.pc = "done", !.status = st]

Call(r, c) == [r EXCEPT !.calls = Append(@, c)]

\* The elements of a sequence.
Range(q) == {q[i] : i \in DOMAIN q}

\* ------------------------------------------------------- request dispatch
\* Worker w has no request in progress: it has not had one yet, or the
\* response of its last one has been sent (and is still on record).
Free(w) == req[w].pc \in {"idle", "done"}

\* A new request: check_container_existence HEADs the bucket before the
\* handler runs; a missing bucket ends the request with NoSuchBucket.
NewRequest(op, b, k, u, next) ==
    LET r == [NoReq EXCEPT !.op = op, !.bucket = b, !.key = k, !.uid = u,
                           !.ended = IF op = "ListUploads" THEN terminated
                                     ELSE terminated \cap {u},
                           !.calls = <<"HEAD bucket">>]
    IN IF BucketExists(b) THEN [r EXCEPT !.pc = next]
       ELSE Finish(r, "NoSuchBucket")

\* unique_id(): a fresh upload id.
\* (unique_id_stale: the id handed out last, again.)
unique_id_stale == IF nextId = 0 THEN 1 ELSE nextId
unique_id == nextId + 1

\* ---------------------------------------------------------------- Initiate
InitiateStart(w, b, k, m) ==
    /\ Free(w)
    /\ nextId < MaxUploads
    /\ LET u == unique_id
           r == [NoReq EXCEPT !.op = "Initiate", !.bucket = b, !.key = k,
                              !.meta = m, !.calls = <<"HEAD bucket">>]
       IN IF BucketExists(b)
          THEN /\ req' = [req EXCEPT ![w] =
                    [r EXCEPT !.pc = "put_marker", !.uid = u,
                              !.calls = r.calls \o <<"HEAD account", "HEAD segments">>]]
               /\ nextId' = nextId + 1
          ELSE /\ req' = [req EXCEPT ![w] = Finish(r, "NoSuchBucket")]
               /\ UNCHANGED nextId
    /\ UNCHANGED <<segments, manifest, terminated>>

InitiatePutMarker(w) ==
    /\ req[w].pc = "put_marker"
    /\ segments' = PutSegment(MarkerName(req[w].key, req[w].uid),
                              [hash |-> <<>>, bytes |-> 0, meta |-> req[w].meta])
    /\ req' = [req EXCEPT ![w] = Finish(Call(@, "PUT marker"), "200")]
    /\ UNCHANGED <<manifest, nextId, terminated>>

\* ------------------------------------------------- marker check (shared)
\* The client's part list is in order: every entry names the part number
\* that follows the entry before it (no descending entry, no repeated
\* number, no gap).
\* (PartOrderOkAny: no check; PartOrderOkNoGapCheck: increasing, gaps allowed.)
PartOrderOkAny(parts) == TRUE
PartOrderOkNoGapCheck(parts) ==
    \A i \in 1..(Len(parts) - 1) : parts[i + 1].pn > parts[i].pn
PartOrderOk(parts) ==
    \A i \in 1..(Len(parts) - 1) : parts[i + 1].pn = parts[i].pn + 1

\* Complete, once the marker is found: the body's part list is validated
\* before any further backend call.
ValidateParts(r) ==
    IF ~PartOrderOk(r.parts) THEN Finish(r, "InvalidPartOrder")
    ELSE [r EXCEPT !.pc = "put_manifest"]

\* Complete reads its body: no part at all is InvalidRequest ("You must
\* specify at least one part") whatever the headers say; then a Content-MD5
\* that is not the digest of the body is BadDigest, and a body that does
\* not parse is MalformedXML.
\* (CheckBodyDigestFirst: the digest is compared before the body is looked at.)
CheckBodyDigestFirst(r) ==
    IF r.hdr.md5 = "mismatch" THEN Finish(r, "BadDigest")
    ELSE IF r.parts = <<>> THEN Finish(r, "InvalidRequest")
    ELSE IF ~r.hdr.xml THEN Finish(r, "MalformedXML")
    ELSE ValidateParts(r)
CheckBody(r) ==
    IF r.parts = <<>> THEN Finish(r, "InvalidRequest")
    ELSE IF r.hdr.md5 = "mismatch" THEN Finish(r, "BadDigest")
    ELSE IF ~r.hdr.xml THEN Finish(r, "MalformedXML")
    ELSE ValidateParts(r)

\* Where a request goes once _get_upload_info has found the marker.
AfterMarker(r) ==
    CASE r.op = "UploadPart" -> [r EXCEPT !.pc = "put_part"]
      [] r.op = "UploadPartCopy" -> [r EXCEPT !.pc = "head_src"]
      [] r.op = "Abort" -> [r EXCEPT !.pc = "delete_marker"]
      [] r.op = "ListParts" -> [r EXCEPT !.pc = "get_parts"]
      [] r.op = "Complete" -> CheckBody(r)
      [] OTHER -> r

\* _get_upload_info: HEAD of the marker object; not found is NoSuchUpload.
\* (GetUploadInfoUnchecked: the answer of the HEAD is ignored.)
GetUploadInfoUnchecked(r) == AfterMarker(Call(r, "HEAD marker"))
GetUploadInfo(r) ==
    IF Exists(MarkerName(r.key, r.uid))
    THEN AfterMarker(Call([r EXCEPT !.info = segments[MarkerOf(r)].meta],
                          "HEAD marker"))
    ELSE Finish(Call(r, "HEAD marker"), "NoSuchUpload")

HeadMarker(w) ==
    /\ req[w].pc = "head_marker"
    /\ req' = [req EXCEPT ![w] = GetUploadInfo(@)]
    /\ UNCHANGED <<segments, manifest, nextId, terminated>>

\* ------------------------------------------------------ query parameters
\* A query parameter is the sequence of its characters; NoParam is a
\* parameter the request does not have.
NoParam == <<>>
DigitChars == <<"0", "1", "2", "3", "4", "5", "6", "7", "8", "9">>
DigitSet == {DigitChars[i] : i \in DOMAIN DigitChars}
DigitValues ==
    [c \in DigitSet |-> (CHOOSE i \in DOMAIN DigitChars : DigitChars[i] = c) - 1]
DigitValue(c) == DigitValues[c]

IsDigits(s) == s # <<>> /\ \A i \in DOMAIN s : s[i] \in DigitSet

\* int() takes the text of an integer: digits, after a minus sign or not.
IsInteger(s) == IsDigits(s) \/ (Len(s) > 1 /\ s[1] = "-" /\ IsDigits(Tail(s)))

RECURSIVE StripZeros(_)
StripZeros(s) == IF Len(s) > 1 /\ s[1] = "0" THEN StripZeros(Tail(s)) ELSE s

\* The digits of the text of an integer, and whether it is below zero.
Magnitude(s) == StripZeros(IF s[1] = "-" THEN Tail(s) ELSE s)
IsNegative(s) == s[1] = "-" /\ Magnitude(s) # <<"0">>

\* Numbers of any size, as Python has them: digits a stand for a greater
\* number than digits b.
NumeralAbove(a, b) ==
    LET x == StripZeros(a)
        y == StripZeros(b)
    IN \/ Len(x) > Len(y)
       \/ /\ Len(x) = Len(y)
          /\ \E i \in DOMAIN x :
                /\ DigitValue(x[i]) > DigitValue(y[i])
                /\ \A j \in 1..(i - 1) : x[j] = y[j]

\* The number some digits stand for, and the digits of a number.
RECURSIVE IntOf(_)
IntOf(s) ==
    IF s = <<>> THEN 0
    ELSE IntOf(SubSeq(s, 1, Len(s) - 1)) * 10 + DigitValue(s[Len(s)])

RECURSIVE Digits(_)
Digits(n) ==
    IF n < 10 THEN <<DigitChars[n + 1]>>
    ELSE Append(Digits(n \div 10), DigitChars[(n % 10) + 1])

MAX_32BIT_INT == 2147483647

Min(a, b) == IF a < b THEN a ELSE b

\* get_validated_param: the value of a numeric parameter, the default when
\* the request has none; text that is no integer, a negative one or one
\* above MAX_32BIT_INT is InvalidArgument; a value above the limit is the
\* limit.
\* (get_validated_param_clamped: a value above MAX_32BIT_INT is the limit.)
InvalidParam == [ok |-> FALSE, value |-> 0]
\* (get_validated_param_bounded: a value above the limit is refused.)
get_validated_param_bounded(s, default, limit) ==
    IF s = NoParam THEN [ok |-> TRUE, value |-> Min(default, limit)]
    ELSE IF ~IsInteger(s) \/ IsNegative(s) THEN InvalidParam
    ELSE IF NumeralAbove(Magnitude(s), Digits(limit)) THEN InvalidParam
    ELSE [ok |-> TRUE, value |-> IntOf(Magnitude(s))]
get_validated_param_clamped(s, default, limit) ==
    IF s = NoParam THEN [ok |-> TRUE, value |-> Min(default, limit)]
    ELSE IF ~IsInteger(s) \/ IsNegative(s) THEN InvalidParam
    ELSE IF NumeralAbove(Magnitude(s), Digits(MAX_32BIT_INT))
         THEN [ok |-> TRUE, value |-> limit]
    ELSE [ok |-> TRUE, value |-> Min(IntOf(Magnitude(s)), limit)]
get_validated_param(s, default, limit) ==
    IF s = NoParam THEN [ok |-> TRUE, value |-> Min(default, limit)]
    ELSE IF ~IsInteger(s) \/ IsNegative(s) THEN InvalidParam
    ELSE IF NumeralAbove(Magnitude(s), Digits(MAX_32BIT_INT)) THEN InvalidParam
    ELSE [ok |-> TRUE, value |-> Min(IntOf(Magnitude(s)), limit)]

\* The partNumber of UploadPart: the text of an integer from 1 to
\* max_upload_part_num.
\* (PartNumberOkAnyNumber: the text of an integer that is not negative.)
PartNumberOkAnyNumber(n) == IsInteger(n) /\ ~IsNegative(n)
PartNumberOk(n) ==
    /\ IsInteger(n) /\ ~IsNegative(n)
    /\ Magnitude(n) # <<"0">>
    /\ ~NumeralAbove(Magnitude(n), Digits(max_upload_part_num))

\* A request without uploadId.
NoUploadId == 0

\* UploadPart and UploadPartCopy look at their parameters once the bucket is
\* found: no uploadId or a partNumber out of bounds is InvalidArgument.
CheckPartParams(r, u, n) ==
    IF r.pc # "head_marker" THEN r
    ELSE IF u = NoUploadId \/ ~PartNumberOk(n)
         THEN Finish([r EXCEPT !.partNumber = n], "InvalidArgument")
    ELSE [r EXCEPT !.partNumber = n, !.pn = IntOf(Magnitude(n))]

\* -------------------------------------------- UploadPart, UploadPartCopy
UploadPartStart(w, b, k, u, n, body) ==
    /\ Free(w)
    /\ req' = [req EXCEPT ![w] =
         CheckPartParams([NewRequest("UploadPart", b, k, u, "head_marker")
                            EXCEPT !.partNumber = n, !.body = body], u, n)]
    /\ UNCHANGED <<segments, manifest, nextId, terminated>>

\* The request carries conditional headers (X-Amz-Copy-Source-If-...):
\* the ones of a copy whose source passes them and of a copy whose source
\* fails them; a copy whose range is refused carries none.
CopyConditional(r) ==
    r.op = "UploadPartCopy" /\ r.copy \in {"ok", "precondition"}

\* The backend call c of the request is sent with the conditional headers
\* of the request: the HEAD of the copy source only.
\* (CondHeadersOnAll: every call from the HEAD of the source on.)
CondHeadersOnAll(r, c) == CopyConditional(r)
CondHeaders(r, c) == CopyConditional(r) /\ c = "HEAD src"

\* A backend call with the headers it is sent with.
CallWith(r, c) ==
    [Call(r, c) EXCEPT !.condsent =
        IF CondHeaders(r, c) THEN Append(@, c) ELSE @]

PutPart(w) ==
    /\ req[w].pc = "put_part"
    /\ LET r == req[w]
           h == PartHash(r.body)
       IN /\ segments' = PutSegment(SegName(r.key, r.uid, r.pn),
                                    [hash |-> h, bytes |-> Len(r.body),
                                     meta |-> PartMeta])
          /\ req' = [req EXCEPT ![w] =
                [Finish(CallWith(r, "PUT part"), "200")
                    EXCEPT !.etag = PlainETag(h)]]
    /\ UNCHANGED <<manifest, nextId, terminated>>

\* X-Amz-Copy-Source: the part is a copy of /src_bucket/src_obj; c is what the
\* HEAD of the source is going to answer.
UploadPartCopyStart(w, b, k, u, n, c) ==
    /\ Free(w)
    /\ req' = [req EXCEPT ![w] =
         CheckPartParams([NewRequest("UploadPartCopy", b, k, u, "head_marker")
                            EXCEPT !.partNumber = n, !.copy = c], u, n)]
    /\ UNCHANGED <<segments, manifest, nextId, terminated>>

\* check_copy_source: HEAD of the source with the conditional headers, then
\* the check of X-Amz-Copy-Source-Range against the source's length.
\* (HeadSrcUnchecked: the answer of the source is not looked at.)
HeadSrcUnchecked(w) ==
    /\ req[w].pc = "head_src"
    /\ req' = [req EXCEPT ![w] =
            [CallWith(req[w], "HEAD src")
                EXCEPT !.pc = "put_part", !.body = SrcPayload]]
    /\ UNCHANGED <<segments, manifest, nextId, terminated>>
HeadSrc(w) ==
    /\ req[w].pc = "head_src"
    /\ LET r == CallWith(req[w], "HEAD src")
       IN req' = [req EXCEPT ![w] =
            CASE r.copy = "precondition" -> Finish(r, "PreconditionFailed")
              [] r.copy = "range" -> Finish(r, "InvalidArgument")
              [] OTHER -> [r EXCEPT !.pc = "put_part", !.body = SrcPayload]]
    /\ UNCHANGED <<segments, manifest, nextId, terminated>>

\* ------------------------------------------------------------------ Abort
AbortStart(w, b, k, u) ==
    /\ Free(w)
    /\ req' = [req EXCEPT ![w] = NewRequest("Abort", b, k, u, "head_marker")]
    /\ UNCHANGED <<segments, manifest, nextId, terminated>>

\* DELETE of the marker; a marker that is gone by now is NoSuchUpload.
AbortDeleteMarker(w) ==
    /\ req[w].pc = "delete_marker"
    /\ req[w].op = "Abort"
    /\ LET r == Call(req[w], "DELETE marker")
           m == MarkerName(r.key, r.uid)
       IN IF Exists(m)
          THEN /\ segments' = DeleteSegment(m)
               /\ req' = [req EXCEPT ![w] = [r EXCEPT !.pc = "get_segments"]]
          ELSE /\ req' = [req EXCEPT ![w] = Finish(r, "NoSuchUpload")]
               /\ UNCHANGED segments
    /\ UNCHANGED <<manifest, nextId, terminated>>

\* The part numbers stored under key/uploadId/.
StoredParts(k, u) ==
    {n \in 1..max_upload_part_num : Exists(SegName(k, u, n))}

\* The listing Abort asks for: the names of the objects under the prefix
\* key/uploadId/.
\* (AbortListingWholeKey: the listing under the prefix key/ instead.)
AbortListingWholeKey(k, u) ==
    LET ps == {x \in DOMAIN segments : x.key = k /\ x.part > 0}
        code(x) == x.uid * (max_upload_part_num + 1) + x.part
        cs == SortedSeq({code(x) : x \in ps})
    IN [i \in 1..Len(cs) |-> CHOOSE x \in ps : code(x) = cs[i]]
AbortListing(k, u) ==
    LET ns == SortedSeq(StoredParts(k, u))
    IN [i \in 1..Len(ns) |-> SegName(k, u, ns[i])]

\* GET of the segments container with prefix key/uploadId/.
AbortGetSegments(w) ==
    /\ req[w].pc = "get_segments"
    /\ LET r == Call(req[w], "GET segments")
           found == AbortListing(r.key, r.uid)
       IN IF found = <<>>
          THEN /\ req' = [req EXCEPT ![w] = Finish(r, "204")]
               /\ terminated' = terminated \cup {r.uid}
          ELSE /\ req' = [req EXCEPT ![w] =
                     [r EXCEPT !.pc = "delete_part", !.todo = found]]
               /\ UNCHANGED terminated
    /\ UNCHANGED <<segments, manifest, nextId>>

\* Abort after the DELETE of a listed part: a part that was not found (404)
\* is absorbed, and Abort goes on with the rest of the listing.
\* (AfterPartDeleteStrict: a 404 ends the Abort with NoSuchKey.)
AfterPartDeleteStrict(r, found) ==
    IF ~found THEN [Finish(r, "NoSuchKey") EXCEPT !.todo = <<>>]
    ELSE IF Tail(r.todo) = <<>> THEN [Finish(r, "204") EXCEPT !.todo = <<>>]
    ELSE [r EXCEPT !.todo = Tail(r.todo)]
AfterPartDelete(r, found) ==
    LET a == [r EXCEPT !.absorbed = (@ \/ ~found)]
    IN IF Tail(r.todo) = <<>> THEN [Finish(a, "204") EXCEPT !.todo = <<>>]
       ELSE [a EXCEPT !.todo = Tail(r.todo)]

\* DELETE of the next listed part.
AbortDeletePart(w) ==
    /\ req[w].pc = "delete_part"
    /\ LET r == Call(req[w], "DELETE part")
           a == AfterPartDelete(r, Exists(Head(r.todo)))
       IN /\ segments' = DeleteSegment(Head(r.todo))
          /\ req' = [req EXCEPT ![w] = a]
          /\ terminated' = IF a.status = "204" THEN terminated \cup {r.uid}
                           ELSE terminated
    /\ UNCHANGED <<manifest, nextId>>

\* --------------------------------------------------------------- Complete
CompleteStart(w, b, k, u, parts, h, m) ==
    /\ Free(w)
    /\ req' = [req EXCEPT ![w] =
         LET r == NewRequest("Complete", b, k, u, "head_marker")
         IN IF r.pc = "done" THEN r
            ELSE [r EXCEPT !.parts = parts, !.hdr = h, !.meta = m]]
    /\ UNCHANGED <<segments, manifest, nextId, terminated>>

\* Some part the list names is not stored (the store answers 404 Not Found
\* for it).
PartMissing(k, u, parts) ==
    \E i \in 1..Len(parts) : ~Exists(SegName(k, u, parts[i].pn))

\* Some part the list names is stored with another hash than the list gives.
\* (HashMismatchNever: the hashes are not compared.)
HashMismatchNever(k, u, parts) == FALSE
HashMismatch(k, u, parts) ==
    \E i \in 1..Len(parts) :
        /\ Exists(SegName(k, u, parts[i].pn))
        /\ segments[SegName(k, u, parts[i].pn)].hash # parts[i].etag

\* Some part but the last is smaller than min_segment_size.
\* (TooSmallAnyPart: the last part is held to the minimum as well.)
TooSmallAnyPart(k, u, parts) ==
    \E i \in 1..Len(parts) :
        /\ Exists(SegName(k, u, parts[i].pn))
        /\ segments[SegName(k, u, parts[i].pn)].bytes < min_segment_size
TooSmall(k, u, parts) ==
    \E i \in 1..(Len(parts) - 1) :
        /\ Exists(SegName(k, u, parts[i].pn))
        /\ segments[SegName(k, u, parts[i].pn)].bytes < min_segment_size

\* What the store answers to the manifest PUT (multipart-manifest=put): it
\* looks up every segment the manifest names.
ManifestError(k, u, parts) ==
    IF PartMissing(k, u, parts) THEN "InvalidPart"
    ELSE IF HashMismatch(k, u, parts) THEN "InvalidPart"
    ELSE IF TooSmall(k, u, parts) THEN "EntityTooSmall"
    ELSE ""

\* The message of the store's 400 for a segment under the minimum.
BackendMessage(k, u, parts) ==
    LET small == {i \in 1..(Len(parts) - 1) :
                     /\ Exists(SegName(k, u, parts[i].pn))
                     /\ segments[SegName(k, u, parts[i].pn)].bytes
                            < min_segment_size}
    IN IF small = {} THEN NoMsg
       ELSE [seg |-> parts[CHOOSE i \in small : \A j \in small : i <= j].pn,
             least |-> min_segment_size]

\* The error response of Complete for an answer of the manifest PUT:
\* EntityTooSmall carries the store's message as it is.
ManifestFailure(r, err) ==
    IF err = "EntityTooSmall"
    THEN [Finish(r, err) EXCEPT !.msg = BackendMessage(r.key, r.uid, r.parts)]
    ELSE Finish(r, err)

\* The content-type and user metadata of the manifest PUT: those the HEAD of
\* the marker returned.
\* (ManifestMetaOfRequest: those of the Complete request.)
ManifestMetaOfRequest(r) == r.meta
ManifestMeta(r) == r.info

\* The chunks the store sends while it handles the manifest PUT: blank ones
\* to keep the connection alive, and the pieces of its answer.
BackendChunks == {" ", "{"}
IsBlank(c) == c = " "

\* The chunks of the store that Complete passes on to the client: the
\* blank ones.
\* (PassesAny: every chunk.)
PassesAny(c) == TRUE
Passes(c) == IsBlank(c)

\* The XML declaration is written before anything else of the body.
Decl == "<?xml"
Yield(out, c) == IF out = <<>> THEN <<Decl, c>> ELSE Append(out, c)

\* The store sends a chunk while the manifest PUT is in progress. Within
\* the grace period after the start of the request nothing is passed on;
\* once something was passed on the grace period is over.
Heartbeat(w, c, late) ==
    /\ req[w].op = "Complete"
    /\ req[w].pc = "put_manifest"
    /\ req[w].beats < MaxBeats
    /\ req[w].out # <<>> => late
    /\ req' = [req EXCEPT ![w] =
         [@ EXCEPT !.beats = @ + 1,
                   !.out = IF late /\ Passes(c) THEN Yield(@, c) ELSE @]]
    /\ UNCHANGED <<segments, manifest, nextId, terminated>>

\* The root element of the document that ends the response.
Document(st) ==
    IF st = "200" THEN "CompleteMultipartUploadResult" ELSE "Error"

\* The end of the response of a Complete that has sent its manifest: when
\* nothing was passed on yet, the status line is that of the outcome and the
\* document carries its declaration; otherwise the status line (200) is on
\* the wire already and the document follows a line break, without
\* declaration.
\* (RespondByOutcome: the status line is that of the outcome in any case.)
RespondByOutcome(r) ==
    [r EXCEPT !.out = IF r.out = <<>> THEN <<Decl, Document(r.status)>>
                      ELSE r.out \o <<"\n", Document(r.status)>>,
              !.http = IF r.status = "200" THEN "200" ELSE "400"]
Respond(r) ==
    [r EXCEPT !.out = IF r.out = <<>> THEN <<Decl, Document(r.status)>>
                      ELSE r.out \o <<"\n", Document(r.status)>>,
              !.http = IF r.out # <<>> \/ r.status = "200" THEN "200"
                       ELSE "400"]

\* The manifest PUT is answered with an error of one segment that is none
\* of the above (403 Forbidden): InvalidRequest with the store's text.
PutManifestRefused(w) ==
    /\ req[w].op = "Complete"
    /\ req[w].pc = "put_manifest"
    /\ ManifestError(req[w].key, req[w].uid, req[w].parts) = ""
    /\ LET r == Call(req[w], "PUT manifest")
       IN req' = [req EXCEPT ![w] =
            Respond([Finish(r, "InvalidRequest")
                       EXCEPT !.msg = [seg |-> r.parts[1].pn,
                                       err |-> "403 Forbidden"]])]
    /\ UNCHANGED <<segments, manifest, nextId, terminated>>

\* PUT of the manifest at the destination key.
\* (PutManifestAborting: a refused manifest makes Complete remove the
\* marker.)
PutManifestAborting(w) ==
    /\ req[w].pc = "put_manifest"
    /\ LET r == Call(req[w], "PUT manifest")
           err == ManifestError(r.key, r.uid, r.parts)
           tag == S3ETag(r.parts)
       IN IF err # ""
          THEN /\ req' = [req EXCEPT ![w] = Respond(ManifestFailure(r, err))]
               /\ segments' = DeleteSegment(MarkerName(r.key, r.uid))
               /\ UNCHANGED manifest
          ELSE /\ manifest' = [manifest EXCEPT ![r.key] =
                     [uid |-> r.uid, segs |-> r.parts, etag |-> tag,
                      meta |-> ManifestMeta(r)]]
               /\ req' = [req EXCEPT ![w] =
                     [r EXCEPT !.pc = "delete_marker", !.etag = tag]]
               /\ UNCHANGED segments
    /\ UNCHANGED <<nextId, terminated>>
PutManifest(w) ==
    /\ req[w].pc = "put_manifest"
    /\ LET r == Call(req[w], "PUT manifest")
           err == ManifestError(r.key, r.uid, r.parts)
           tag == S3ETag(r.parts)
       IN IF err # ""
          THEN /\ req' = [req EXCEPT ![w] = Respond(ManifestFailure(r, err))]
               /\ UNCHANGED manifest
          ELSE /\ manifest' = [manifest EXCEPT ![r.key] =
                     [uid |-> r.uid, segs |-> r.parts, etag |-> tag,
                      meta |-> ManifestMeta(r)]]
               /\ req' = [req EXCEPT ![w] =
                     [r EXCEPT !.pc = "delete_marker", !.etag = tag]]
    /\ UNCHANGED <<segments, nextId, terminated>>

\* What Complete removes from the segments container once the manifest is
\* written: the marker only (the parts are the manifest's segments).
\* (CleanupMarkerAndParts: the marker and every part of the upload.)
CleanupMarkerAndParts(r) ==
    [n \in {x \in DOMAIN segments : ~(x.key = r.key /\ x.uid = r.uid)}
        |-> segments[n]]
Cleanup(r) == DeleteSegment(MarkerName(r.key, r.uid))

\* The response of Complete after the DELETE of the marker: success, also
\* when the marker was not found.
\* (AfterCleanupStrict: a marker that is not found is reported.)
AfterCleanupStrict(r, found) ==
    IF found THEN Finish(r, "200") ELSE Finish(r, "NoSuchKey")
AfterCleanup(r, found) ==
    [Finish(r, "200") EXCEPT !.absorbed = ~found]

\* DELETE of the marker; a failure (404) is swallowed.
CompleteDeleteMarker(w) ==
    /\ req[w].pc = "delete_marker"
    /\ req[w].op = "Complete"
    /\ LET r == Call(req[w], "DELETE marker")
           a == Respond(AfterCleanup(r, Exists(MarkerOf(r))))
       IN /\ segments' = Cleanup(r)
          /\ req' = [req EXCEPT ![w] = a]
          /\ terminated' = IF a.status = "200" THEN terminated \cup {r.uid}
                           ELSE terminated
    /\ UNCHANGED <<manifest, nextId>>

\* -------------------------------------------------- ListParts, ListUploads
\* max-parts and part-number-marker are validated before any backend call.
ListPartsStart(w, b, k, u, mp, pnm) ==
    /\ Free(w)
    /\ LET lim == get_validated_param(mp, max_parts_listing, max_parts_listing)
           mk == get_validated_param(pnm, 0, MAX_32BIT_INT)
           bad == [NoReq EXCEPT !.op = "ListParts", !.bucket = b, !.key = k,
                                !.uid = u, !.mp = mp, !.pnm = pnm]
       IN req' = [req EXCEPT ![w] =
            IF ~lim.ok \/ ~mk.ok THEN Finish(bad, "InvalidArgument")
            ELSE [NewRequest("ListParts", b, k, u, "head_marker")
                    EXCEPT !.mp = mp, !.pnm = pnm,
                           !.maxn = lim.value, !.marker = mk.value,
                           !.limit = lim.value + 1]]
    /\ UNCHANGED <<segments, manifest, nextId, terminated>>

\* The last path element of an object name: the part number in digits; a
\* negative number stands for an object put under key/uploadId/ by other
\* means, whose last path element is not a number.
Suffix(p) == IF p < 0 THEN <<"x">> ELSE Digits(p)

\* The characters of object names, in the order of their codes.
Alphabet ==
    <<"/">> \o DigitChars \o <<"A", "B", "C", "D", "E", "F">>
        \o <<"d", "o", "s", "x", "~">>
CharRanks ==
    [c \in Range(Alphabet) |-> CHOOSE i \in DOMAIN Alphabet : Alphabet[i] = c]

\* The order of names in a container listing: character by character, by
\* the codes of the characters, a name after its own beginnings.
CharRank(c) == CharRanks[c]
NameBefore(a, b) ==
    \/ Len(a) < Len(b) /\ SubSeq(b, 1, Len(a)) = a
    \/ \E i \in 1..Min(Len(a), Len(b)) :
          /\ CharRank(a[i]) < CharRank(b[i])
          /\ \A j \in 1..(i - 1) : a[j] = b[j]

RECURSIVE NameOrder(_)
NameOrder(S) ==
    IF S = {} THEN <<>>
    ELSE LET m == CHOOSE x \in S : \A y \in S \ {x} : NameBefore(x, y)
         IN <<m>> \o NameOrder(S \ {m})

\* GET of the segments container with prefix key/uploadId/: the last path
\* elements of the objects under the prefix, in the order of names.
ContainerListing(container, k, u) ==
    NameOrder({Suffix(n.part) :
        n \in {m \in DOMAIN container : m.key = k /\ m.uid = u /\ m.part # 0}})

\* The names of a listing that are numbers, read as integers.
NumericNames(q) ==
    LET ns == SelectSeq(q, IsDigits)
    IN [i \in DOMAIN ns |-> IntOf(ns[i])]

\* The part numbers of a listing in ascending order of the numbers.
\* (PartNumbersByName: in the order of the names.)
PartNumbersByName(q) == NumericNames(q)
PartNumbersSorted(q) == SortedSeq(Range(NumericNames(q)))

\* The first entries of a listing, up to the limit of the query.
\* (Unlimited: the limit is not applied.)
Unlimited(q, limit) == q
Limited(q, limit) == SubSeq(q, 1, Min(Len(q), limit))

\* The part entries of the names a listing returned, in ascending
\* part-number order.
PartEntriesOf(container, k, u, names) ==
    LET ns == PartNumbersSorted(names)
    IN [i \in 1..Len(ns) |->
          [pn |-> ns[i],
           hash |-> container[SegName(k, u, ns[i])].hash,
           bytes |-> container[SegName(k, u, ns[i])].bytes]]

\* The parts of an upload in a container, in ascending part-number order.
PartListingOf(container, k, u) ==
    PartEntriesOf(container, k, u, ContainerListing(container, k, u))
PartListing(k, u) == PartListingOf(segments, k, u)

\* The page of a listing: the entries after the marker, the limit at most.
\* (PageFromStart: the marker is not applied.)
PageFromStart(list, marker, limit) == SubSeq(list, 1, Min(Len(list), limit))
Page(list, marker, limit) ==
    LET rest == SelectSeq(list, LAMBDA o : o.pn > marker)
    IN SubSeq(rest, 1, Min(Len(rest), limit))

\* The listing has entries after the marker that the page leaves out.
Truncated(list, marker, limit) ==
    Len(SelectSeq(list, LAMBDA o : o.pn > marker)) > limit

\* NextPartNumberMarker: the number of the last part of the page.
LastPart(page) == IF page = <<>> THEN 0 ELSE page[Len(page)].pn

\* GET of the segments container with prefix key/uploadId/ and a limit of
\* one entry more than the page; the entries returned are filtered, sorted
\* and cut to the page.
GetParts(w) ==
    /\ req[w].pc = "get_parts"
    /\ LET r == Call(req[w], "GET segments")
           all == PartEntriesOf(segments, r.key, r.uid,
                      Limited(ContainerListing(segments, r.key, r.uid), r.limit))
           page == Page(all, r.marker, r.maxn)
       IN req' = [req EXCEPT ![w] =
            [Finish(r, "200") EXCEPT !.listing = page,
                 !.truncated = Truncated(all, r.marker, r.maxn),
                 !.next = LastPart(page)]]
    /\ UNCHANGED <<segments, manifest, nextId, terminated>>

\* The keys of the uploads a listing is asked about, and their text: every
\* path element is written with its first letter.
ListKeys == {"object", "dir/object", "dir/sub/object"}
KeyText(k) ==
    CASE k = "dir/object" -> <<"d", "/", "o">>
      [] k = "dir/sub/object" -> <<"d", "/", "s", "/", "o">>
      [] OTHER -> <<"o">>

\* The text of an upload id: ids are handed out in ascending order.
IdChars == <<"A", "B", "C", "D", "E", "F">>
UploadIdText(u) == <<IdChars[u]>>

\* The name of an object of the segments container: key/uploadId for the
\* marker, key/uploadId/partNumber for a part.
NameText(n) ==
    KeyText(n.key) \o <<"/">> \o UploadIdText(n.uid)
        \o (IF n.part = 0 THEN <<>> ELSE <<"/">> \o Suffix(n.part))

StartsWith(t, p) == Len(p) <= Len(t) /\ SubSeq(t, 1, Len(p)) = p

RECURSIVE InNameOrder(_)
InNameOrder(S) ==
    IF S = {} THEN <<>>
    ELSE LET m == CHOOSE x \in S :
                    \A y \in S \ {x} : NameBefore(NameText(x), NameText(y))
         IN <<m>> \o InNameOrder(S \ {m})

\* GET of a container with the query prefix, marker and limit: the objects
\* whose name starts with the prefix and comes after the marker, in the
\* order of names, the limit at most.
ObjectListing(container, prefix, marker, limit) ==
    Limited(InNameOrder({n \in DOMAIN container :
                /\ StartsWith(NameText(n), prefix)
                /\ marker = <<>> \/ NameBefore(marker, NameText(n))}),
            limit)

\* The marker of the query: key-marker/upload-id-marker, or key-marker/~
\* (after every upload of the key) when there is no upload-id-marker.
\* (UploadMarkerKeyOnly: the upload-id-marker is not used.)
UploadMarkerKeyOnly(km, um) ==
    IF km = "" THEN <<>> ELSE KeyText(km) \o <<"/", "~">>
UploadMarker(km, um) ==
    IF km = "" THEN <<>>
    ELSE KeyText(km) \o <<"/">>
            \o (IF um = NoUploadId THEN <<"~">> ELSE UploadIdText(um))

\* max-uploads is validated before any backend call; the query asks for
\* one entry more than the page.
ListUploadsStart(w, b, mu, km, um, pre, del) ==
    /\ Free(w)
    /\ LET lim == get_validated_param(mu, DEFAULT_MAX_UPLOADS, DEFAULT_MAX_UPLOADS)
           bad == [NoReq EXCEPT !.op = "ListUploads", !.bucket = b, !.mp = mu]
       IN req' = [req EXCEPT ![w] =
            IF ~lim.ok THEN Finish(bad, "InvalidArgument")
            ELSE [NewRequest("ListUploads", b, "", 0, "get_uploads")
                    EXCEPT !.mp = mu, !.maxn = lim.value,
                           !.keymarker = km, !.uidmarker = um,
                           !.prefix = pre, !.delimiter = del,
                           !.limit = lim.value + 1,
                           !.qmarker = UploadMarker(km, um)]]
    /\ UNCHANGED <<segments, manifest, nextId, terminated>>

\* An object whose name ends with /number: a part.
\* (IsPartNever: no object is taken for a part.)
IsPartNever(n) == FALSE
IsPart(n) == n.part > 0

\* The first place at or after from where the text d occurs in t, 0 when
\* it does not.
FirstAt(t, d, from) ==
    LET P == {i \in from..(Len(t) - Len(d) + 1) :
                SubSeq(t, i, i + Len(d) - 1) = d}
    IN IF P = {} THEN 0 ELSE CHOOSE i \in P : \A j \in P : i <= j

\* separate_uploads: the common prefix of a key, its text up to and
\* including the first delimiter after the prefix; no text when the
\* request has no delimiter or the key has none after the prefix.
\* (CommonPrefixOfWholeKey: the delimiter is looked for in the whole key.)
CommonPrefixOfWholeKey(kt, prefix, delimiter) ==
    IF delimiter = <<>> \/ FirstAt(kt, delimiter, 1) = 0 THEN <<>>
    ELSE SubSeq(kt, 1, FirstAt(kt, delimiter, 1) + Len(delimiter) - 1)
CommonPrefixOf(kt, prefix, delimiter) ==
    LET i == FirstAt(kt, delimiter, Len(prefix) + 1)
    IN IF delimiter = <<>> \/ ~StartsWith(kt, prefix) \/ i = 0 THEN <<>>
       ELSE SubSeq(kt, 1, i + Len(delimiter) - 1)

\* The status of the listing when the GET of the segments container finds
\* no container: no upload, not an error.
\* (UploadsStatusStrict: the missing container is reported.)
UploadsStatusStrict(found) == IF found THEN "200" ELSE "NoSuchBucket"
UploadsStatus(found) == "200"

\* GET of the segments container, once: the objects that are no parts are
\* the uploads; with a delimiter they are separated into uploads and
\* common prefixes; the uploads are cut to max-uploads.
GetUploads(w) ==
    /\ req[w].pc = "get_uploads"
    /\ LET r == Call(req[w], "GET segments")
           objects == IF segcontainer
                      THEN ObjectListing(segments, r.prefix, r.qmarker, r.limit)
                      ELSE <<>>
           found == SelectSeq(objects, LAMBDA n : ~IsPart(n))
           uploads == SelectSeq(found, LAMBDA n :
                        CommonPrefixOf(KeyText(n.key), r.prefix, r.delimiter) = <<>>)
           prefixes == NameOrder({CommonPrefixOf(KeyText(n.key), r.prefix,
                                                 r.delimiter) :
                                     n \in Range(found)} \ {<<>>})
           page == Limited(uploads, r.maxn)
       IN req' = [req EXCEPT ![w] =
            [Finish(r, UploadsStatus(segcontainer))
                EXCEPT !.listing = page,
                       !.prefixes = prefixes,
                       !.truncated = Len(uploads) > r.maxn,
                       !.nextkey = IF page = <<>> THEN ""
                                   ELSE page[Len(page)].key,
                       !.next = IF page = <<>> THEN 0
                                ELSE page[Len(page)].uid]]
    /\ UNCHANGED <<segments, manifest, nextId, terminated>>

\* ---------------------------------------------------------- DELETE Object
\* The versionId parameter of a DELETE: none, the current version ('null':
\* the objects have no version-id of their own), or another version.
VersionIds == {"", "null", "other"}

\* ObjectController.DELETE of a key of the bucket, with the versionId
\* parameter vid, on a bucket whose versions-mode is 'history' or not, by a
\* middleware that allows multipart uploads (slo) or not.  Without slo the
\* query is None and no HEAD is sent for it.
ObjectDeleteStart(w, b, k, vid, history, slo) ==
    /\ Free(w)
    /\ req' = [req EXCEPT ![w] =
         [NoReq EXCEPT !.op = "ObjectDelete",
                       !.pc = IF slo THEN "head_object"
                              ELSE IF vid # "" THEN "object_info"
                              ELSE "delete_object",
                       !.bucket = b, !.key = k, !.vid = vid,
                       !.history = history, !.slo = slo]]
    /\ UNCHANGED <<segments, manifest, nextId, terminated>>

\* except NoSuchKey: get_container_info raises NoSuchBucket for a missing
\* bucket, else 204.
NoSuchKeyResponse(r) ==
    IF BucketExists(r.bucket)
    THEN Finish(Call(r, "HEAD bucket"), "204")
    ELSE Finish(Call(r, "HEAD bucket"), "NoSuchBucket")

\* gen_multipart_manifest_delete_query: HEAD of the object; the query is
\* multipart-manifest=delete for a manifest and None for another object.
HeadObject(w) ==
    /\ req[w].pc = "head_object"
    /\ LET r == Call(req[w], "HEAD object")
       IN req' = [req EXCEPT ![w] =
            IF BucketExists(r.bucket) /\ manifest[r.key] # NoObject
            THEN [r EXCEPT !.pc = IF r.vid # "" THEN "object_info"
                                  ELSE "delete_object",
                           !.query = IF manifest[r.key].segs # <<>>
                                     THEN "delete" ELSE "None"]
            ELSE NoSuchKeyResponse(r)]
    /\ UNCHANGED <<segments, manifest, nextId, terminated>>

\* _delete_version: get_object_info, a HEAD of the object.
ObjectInfo(w) ==
    /\ req[w].pc = "object_info"
    /\ LET r == Call(req[w], "HEAD object")
       IN req' = [req EXCEPT ![w] =
            IF BucketExists(r.bucket) /\ manifest[r.key] # NoObject
            THEN [r EXCEPT !.pc = "delete_object"]
            ELSE NoSuchKeyResponse(r)]
    /\ UNCHANGED <<segments, manifest, nextId, terminated>>

\* The query of the backend DELETE: none at all without versionId on a
\* bucket in 'history' mode, else the one computed for the object.
\* (QuerySentAlways: the computed query in every case.)
QuerySentAlways(r) == r.query
QuerySent(r) == IF r.vid = "" /\ r.history THEN "absent" ELSE r.query

\* The status of the response after the backend answered: _delete_version
\* sets 204, and the 200 of the bulk deleter is turned into 204.
\* (DeleteStatusKept: the status of the backend as it is.)
DeleteStatusKept(r, backend) == backend
DeleteStatus(r, backend) ==
    IF r.vid # "" THEN "204"
    ELSE IF r.query # "None" /\ backend = "200" THEN "204"
    ELSE backend

\* The backend DELETE.  With multipart-manifest=delete the store removes
\* the manifest's segments and the manifest and answers 200, without it the
\* object alone and answers 204; a version other than the current one is an
\* object of the versioning container, which may be there or not.
DeleteObject(w) ==
    /\ req[w].pc = "delete_object"
    /\ LET r0 == req[w]
           m == manifest[r0.key]
           gone == {SegName(r0.key, m.uid, m.segs[i].pn) : i \in 1..Len(m.segs)}
           r == [Call(IF r0.vid = "" THEN Call(r0, "HEAD bucket") ELSE r0,
                      "DELETE object") EXCEPT !.sent = QuerySent(r0)]
       IN IF r0.vid = "" /\ ~BucketExists(r0.bucket)
          THEN /\ req' = [req EXCEPT ![w] =
                         Finish(Call(r0, "HEAD bucket"), "NoSuchBucket")]
               /\ UNCHANGED <<segments, manifest>>
          ELSE IF r0.vid = "other"
          THEN /\ \E backend \in {"204", "404"} :
                    req' = [req EXCEPT ![w] =
                      IF backend = "404"
                      THEN NoSuchKeyResponse([r EXCEPT !.backend = backend])
                      ELSE Finish([r EXCEPT !.backend = backend],
                                  DeleteStatus(r, backend))]
               /\ UNCHANGED <<segments, manifest>>
          ELSE IF ~BucketExists(r0.bucket) \/ m = NoObject
          THEN /\ req' = [req EXCEPT ![w] =
                         NoSuchKeyResponse([r EXCEPT !.backend = "404"])]
               /\ UNCHANGED <<segments, manifest>>
          ELSE LET backend == IF r.sent = "delete" THEN "200" ELSE "204"
               IN /\ segments' =
                       IF r.sent = "delete"
                       THEN [n \in DOMAIN segments \ gone |-> segments[n]]
                       ELSE segments
                  /\ manifest' = [manifest EXCEPT ![r.key] = NoObject]
                  /\ req' = [req EXCEPT ![w] =
                         Finish([r EXCEPT !.backend = backend],
                                DeleteStatus(r, backend))]
    /\ UNCHANGED <<nextId, terminated>>

\* ------------------------------------------------ Delete Multiple Objects
\* The keys a Delete Multiple Objects request may name: an object of the
\* bucket, and a key whose DELETE the store refuses.
DeleteKeyNames == {"object", "denied"}
DeleteLists ==
    UNION {[1..n -> DeleteKeyNames] : n \in 0..(max_multi_delete_objects + 1)}

\* An object of the bucket that is no multipart object, and a multipart
\* object (a manifest) with one segment.
PlainObject == [NoObject EXCEPT !.meta = PartMeta]
MultipartObject ==
    [uid |-> 1, segs |-> <<[pn |-> 1, etag |-> PartHash(<<1>>)]>>,
     etag |-> S3ETag(<<[pn |-> 1, etag |-> PartHash(<<1>>)]>>),
     meta |-> PartMeta]

\* What the body of a Delete Multiple Objects request is like: its shape
\* (no body, no XML document of the schema, an Object with an empty Key, or
\* a list of keys), whether its Content-MD5 is that of another body, the
\* place in the list of a key that carries a VersionId (0: none), and what
\* the store answers to the HEAD of the bucket.
DeleteBodies ==
    [shape : {"keys", "missing", "malformed", "nokey"}, md5bad : BOOLEAN,
     ver : {0, 1}, head : {"ok", "AccessDenied"}]
GoodBody == [shape |-> "keys", md5bad |-> FALSE, ver |-> 0, head |-> "ok"]

\* The checks of the body, in the order of the code: the body is read, its
\* digest compared, the document parsed, the keys collected and counted.
\* (BodyErrorUncounted: the number of keys is not checked.)
BodyErrorUncounted(keys, body) ==
    IF body.shape = "missing" THEN "MissingRequestBodyError"
    ELSE IF body.md5bad THEN "BadDigest"
    ELSE IF body.shape = "malformed" THEN "MalformedXML"
    ELSE IF body.shape = "nokey" THEN "UserKeyMustBeSpecified"
    ELSE ""
BodyError(keys, body) ==
    IF body.shape = "missing" THEN "MissingRequestBodyError"
    ELSE IF body.md5bad THEN "BadDigest"
    ELSE IF body.shape = "malformed" THEN "MalformedXML"
    ELSE IF body.shape = "nokey" THEN "UserKeyMustBeSpecified"
    ELSE IF Len(keys) > max_multi_delete_objects THEN "MalformedXML"
    ELSE ""

\* _gen_error_body: an Error element for every key, with the error of the
\* bucket check.
ErrorBody(keys, code) ==
    [j \in 1..Len(keys) |-> [key |-> keys[j], code |-> code, job |-> j]]

\* StreamingPile(multi_delete_concurrency).asyncstarmap, at its start: a
\* job is spawned for each of the first items, as many as the pool has
\* threads.
\* (InitialSpawnAll: a job for every item.)
InitialSpawnAll(keys) == Len(keys)
InitialSpawn(keys) == Min(multi_delete_concurrency, Len(keys))

\* POST ?delete: the list of keys is read and checked, the bucket is
\* HEADed, a VersionId is refused, and the pile is started. A bucket check
\* answered with AccessDenied makes the result an Error for every key. A
\* request without keys has its result at once.
MultiDeleteStart(w, b, keys, quiet, body) ==
    /\ Free(w)
    /\ LET bad == [NoReq EXCEPT !.op = "MultiDelete", !.bucket = b,
                                !.dkeys = keys, !.quiet = quiet,
                                !.dbody = body]
           h == NewRequest("MultiDelete", b, "", 0, "drain")
           r == [h EXCEPT !.dkeys = keys, !.quiet = quiet, !.dbody = body]
           n == InitialSpawn(keys)
           versioned == body.ver \in 1..Len(keys)
       IN req' = [req EXCEPT ![w] =
            IF BodyError(keys, body) # ""
            THEN Finish(bad, BodyError(keys, body))
            ELSE IF r.pc = "done" THEN r
            ELSE IF body.head = "AccessDenied"
            THEN IF versioned THEN Finish(r, "S3NotImplemented")
                 ELSE Finish([r EXCEPT
                                !.results = ErrorBody(keys, "AccessDenied")],
                             "200")
            ELSE IF versioned THEN Finish(r, "S3NotImplemented")
            ELSE IF keys = <<>> THEN Finish(r, "200")
            ELSE [r EXCEPT !.issued = n, !.flight = 1..n,
                           !.round = [j \in 1..n |-> 1]]]
    /\ UNCHANGED <<segments, manifest, nextId, terminated>>

\* What the store may answer to the DELETE of key k: 403 for a key it
\* denies, 404 for a key without object, 204 for an object, and for a
\* manifest the result of the bulk delete: without errors, with errors of
\* segments, or one that does not parse.
StoreAnswers(k) ==
    IF k \notin Keys THEN {"403"}
    ELSE IF manifest[k] = NoObject THEN {"404"}
    ELSE IF manifest[k].segs = <<>> THEN {"204"}
    ELSE {"200", "200 errors", "200 unparsable"}

\* do_delete: what the DELETE of a key comes back with: an error response
\* of the store is the result of the key, as is a bulk delete that reports
\* errors or cannot be read; NoSuchKey is passed over, the key counts as
\* deleted.
\* (DeleteErrorStrict: NoSuchKey is an error like the others.)
DeleteErrorStrict(ans) ==
    CASE ans = "403" -> "AccessDenied"
      [] ans = "404" -> "NoSuchKey"
      [] ans \in {"200 errors", "200 unparsable"} -> "SLODeleteError"
      [] OTHER -> ""
DeleteError(ans) ==
    CASE ans = "403" -> "AccessDenied"
      [] ans \in {"200 errors", "200 unparsable"} -> "SLODeleteError"
      [] OTHER -> ""

\* The store answers the DELETE of job j: an object of the bucket is
\* removed, with its segments if it is a multipart object, unless the
\* bulk delete reports errors; the result is queued for the request that
\* waits on the pile.
DeleteDone(w, j, ans) ==
    /\ req[w].op = "MultiDelete"
    /\ req[w].pc = "drain"
    /\ j \in req[w].flight
    /\ ans \in StoreAnswers(req[w].dkeys[j])
    /\ LET r == req[w]
           k == r.dkeys[j]
           m == IF k \in Keys THEN manifest[k] ELSE NoObject
           gone == {SegName(k, m.uid, m.segs[i].pn) : i \in 1..Len(m.segs)}
           kept == ans \in {"403", "404", "200 errors"}
       IN /\ segments' = IF kept THEN segments
                         ELSE [n \in DOMAIN segments \ gone |-> segments[n]]
          /\ manifest' = IF kept THEN manifest
                         ELSE [x \in Keys |->
                                 IF x = k THEN NoObject ELSE manifest[x]]
          /\ req' = [req EXCEPT ![w] =
                [r EXCEPT !.flight = @ \ {j},
                          !.queue = Append(@, [job |-> j,
                                               code |-> DeleteError(ans)]),
                          !.answers = [x \in DOMAIN @ \cup {j} |->
                                         IF x = j THEN ans ELSE @[x]],
                          !.inorder = @ /\ \A i \in r.flight : j <= i]]
    /\ UNCHANGED <<nextId, terminated>>

\* The element of DeleteResult for a result: Error with the code, or
\* Deleted unless the request is quiet.
ResultElements(r, res) ==
    IF res.code # "" \/ ~r.quiet
    THEN <<[key |-> r.dkeys[res.job], code |-> res.code, job |-> res.job]>>
    ELSE <<>>

\* The request takes the next result off the pile, adds its element to
\* DeleteResult and, if keys are left, spawns the job of the next key; with
\* the last result the response is sent.
\* (RetrieveRaising: the first error of a key ends the request with it.)
RetrieveRaising(w) ==
    /\ req[w].op = "MultiDelete"
    /\ req[w].pc = "drain"
    /\ req[w].queue # <<>>
    /\ LET r == req[w]
           res == Head(r.queue)
           more == r.issued < Len(r.dkeys)
           s == [r EXCEPT !.queue = Tail(@),
                          !.results = @ \o ResultElements(r, res),
                          !.issued = IF more THEN @ + 1 ELSE @,
                          !.flight = IF more THEN @ \cup {r.issued + 1} ELSE @,
                          !.round = IF more THEN Append(@, r.round[res.job] + 1)
                                    ELSE @]
       IN req' = [req EXCEPT ![w] =
            IF res.code # "" THEN Finish(r, res.code)
            ELSE IF s.flight = {} /\ s.queue = <<>> THEN Finish(s, "200")
            ELSE s]
    /\ UNCHANGED <<segments, manifest, nextId, terminated>>
Retrieve(w) ==
    /\ req[w].op = "MultiDelete"
    /\ req[w].pc = "drain"
    /\ req[w].queue # <<>>
    /\ LET r == req[w]
           res == Head(r.queue)
           more == r.issued < Len(r.dkeys)
           s == [r EXCEPT !.queue = Tail(@),
                          !.results = @ \o ResultElements(r, res),
                          !.issued = IF more THEN @ + 1 ELSE @,
                          !.flight = IF more THEN @ \cup {r.issued + 1} ELSE @,
                          !.round = IF more THEN Append(@, r.round[res.job] + 1)
                                    ELSE @]
       IN req' = [req EXCEPT ![w] =
            IF s.flight = {} /\ s.queue = <<>> THEN Finish(s, "200") ELSE s]
    /\ UNCHANGED <<segments, manifest, nextId, terminated>>

\* ------------------------------------------------------------ S3Middleware
\* The controllers of the middleware and the attributes an instance has:
\* the handlers, marked @public, and the helpers, which are not.
Controllers == {"Object", "MultiObjectDelete"}
Attributes(c) ==
    IF c = "Object"
    THEN {"GETorHEAD", "HEAD", "GET", "PUT", "POST", "DELETE", "OPTIONS",
          "_gen_head_range_resp", "_delete_version"}
    ELSE {"POST", "_gen_error_body"}

\* getattr(handler, 'publicly_accessible', False)
\* (PubliclyAccessibleAny: every attribute passes.)
PubliclyAccessibleAny(c, m) == TRUE
PubliclyAccessible(c, m) ==
    IF c = "Object"
    THEN m \in {"HEAD", "GET", "PUT", "POST", "DELETE", "OPTIONS"}
    ELSE m = "POST"

\* The methods of the requests: those of HTTP, and names that are attributes
\* of a controller without being handlers.
Methods ==
    {"GET", "HEAD", "PUT", "POST", "DELETE", "OPTIONS", "PATCH", "GETorHEAD",
     "_delete_version"}

\* The classes of the exceptions raised while a request is built or
\* handled, each with the classes it derives from.
Raised ==
    {"NotS3Request", "AccessDenied", "MethodNotAllowed", "InternalError",
     "ValueError"}
Ancestors(e) ==
    IF e = "NotS3Request" THEN {"NotS3Request", "Exception"}
    ELSE IF e = "ValueError" THEN {"ValueError", "Exception"}
    ELSE {e, "ErrorResponse", "Exception"}

\* The except clauses of __call__, tried in the order written: the wrapped
\* application for NotS3Request, the error itself for an ErrorResponse
\* (logged if it is an InternalError), an InternalError for anything else,
\* logged.
\* (CatchAll: one clause, except Exception, for everything.)
CatchAll(r, e) ==
    [r EXCEPT !.raised = e, !.pc = "send", !.logged = TRUE,
              !.resp = "InternalError"]
Catch(r, e) ==
    LET s == [r EXCEPT !.raised = e, !.pc = "send"]
    IN IF "NotS3Request" \in Ancestors(e) THEN [s EXCEPT !.resp = "app"]
       ELSE IF "ErrorResponse" \in Ancestors(e)
       THEN [s EXCEPT !.resp = e, !.logged = (e = "InternalError")]
       ELSE IF "Exception" \in Ancestors(e)
       THEN [s EXCEPT !.resp = "InternalError", !.logged = TRUE]
       ELSE [s EXCEPT !.pc = "done", !.status = "escaped"]

\* __call__, up to handle_request: the request object is built from the
\* environment, or building it raises.
CallStart(w, c, m, tid, built) ==
    /\ Free(w)
    /\ LET r == [NoReq EXCEPT !.op = "Call", !.controller = c, !.method = m,
                              !.transid = tid]
       IN req' = [req EXCEPT ![w] =
            IF built = "ok" THEN [r EXCEPT !.pc = "handle"] ELSE Catch(r, built)]
    /\ UNCHANGED <<segments, manifest, nextId, terminated>>

\* handle_request: the ACL handler is attached, then the handler named
\* after the method is looked up and invoked if it is public.
HandleRequest(w) ==
    /\ req[w].pc = "handle"
    /\ LET r == [req[w] EXCEPT !.acl = TRUE]
       IN req' = [req EXCEPT ![w] =
            IF r.method \in Attributes(r.controller)
            THEN IF ~PubliclyAccessible(r.controller, r.method)
                 THEN Catch(r, "MethodNotAllowed")
                 ELSE [r EXCEPT !.pc = "handler", !.ran = TRUE]
            ELSE Catch(r, "MethodNotAllowed")]
    /\ UNCHANGED <<segments, manifest, nextId, terminated>>

\* The handler returns its response, or raises.
HandlerDone(w, out) ==
    /\ req[w].pc = "handler"
    /\ LET r == req[w]
       IN req' = [req EXCEPT ![w] =
            IF out = "ok" THEN [r EXCEPT !.pc = "send", !.resp = "handler"]
            ELSE Catch(r, out)]
    /\ UNCHANGED <<segments, manifest, nextId, terminated>>

\* The end of __call__: a response of the middleware is given the
\* transaction id of the environment, and the response (or the wrapped
\* application) is called.
Send(w) ==
    /\ req[w].pc = "send"
    /\ LET r == req[w]
       IN req' = [req EXCEPT ![w] =
            Finish([r EXCEPT !.idhdr = (r.resp # "app" /\ r.transid)],
                   IF r.resp = "app" THEN "app"
                   ELSE IF r.resp = "handler" THEN "200" ELSE r.resp)]
    /\ UNCHANGED <<segments, manifest, nextId, terminated>>

\* ---------------------------------------------------------- specifications
\* The outcomes of the HEAD of a copy source.
CopyOutcomes == {"ok", "precondition", "range"}

\* The record of what happened to the part objects: a part written by a
\* request whose upload has no marker any more is an orphan; a part written
\* over an object with another hash has replaced it. The segments container
\* is there once an Initiate has passed its bucket check.
Track ==
    LET written == {SegName(req[w].key, req[w].uid, req[w].pn) :
                       w \in {x \in Workers : /\ req[x].pc = "put_part"
                                               /\ req'[x].pc = "done"}}
        started == {x \in Workers : /\ req[x].pc = "put_marker"
                                     /\ req'[x].pc = "done"}
    IN /\ given' = [u \in DOMAIN given \cup {req[x].uid : x \in started} |->
                      IF u \in DOMAIN given THEN given[u]
                      ELSE req[CHOOSE x \in started : req[x].uid = u].meta]
       /\ orphans' = orphans \cup
            {n \in written : ~Exists(MarkerName(n.key, n.uid))}
       /\ replaced' =
            {n \in DOMAIN segments' :
                \/ n \in written /\ Exists(n) /\ segments'[n].hash # segments[n].hash
                \/ n \in replaced /\ n \notin written}
       /\ segcontainer' =
            (segcontainer \/ \E x \in Workers : /\ req[x].pc # "put_marker"
                                                /\ req'[x].pc = "put_marker")

\* One more request is received.
Count == nreq < MaxRequests /\ nreq' = nreq + 1

\* No request is received.
Stay == UNCHANGED nreq

\* The headers a Complete with this part list may carry, out of HS: the
\* framing of the body is varied for the empty body only.
HeadersFor(parts, HS) ==
    IF parts = <<>> THEN {h \in HS : h.xml}
    ELSE {h \in HS : h.cl /\ ~h.te /\ h.md5 # "absent"}

\* The part lists sent to bucket b, out of PL: a request to a missing bucket
\* ends before its body is read, so one body stands for all.
ListsFor(b, PL) == IF b \in ExistingBuckets THEN PL ELSE {<<>>}

\* Worker w receives a multipart or object request with inputs from the sets
\* of I: buckets, part numbers, part lists, bodies, body headers.
Receive(w, I) ==
    \/ \E b \in I.buckets, k \in Keys, m \in I.metas :
            Count /\ InitiateStart(w, b, k, m) /\ Track
    \/ \E b \in I.buckets, k \in Keys, u \in I.partuids, n \in I.pns,
          body \in I.bodies :
            Count /\ UploadPartStart(w, b, k, u, n, body) /\ Track
    \/ \E b \in I.buckets, k \in Keys, u \in UploadIds :
          \E parts \in ListsFor(b, I.lists) : \E h \in HeadersFor(parts, I.hdrs) :
            \E m \in I.cmetas :
              Count /\ CompleteStart(w, b, k, u, parts, h, m) /\ Track
    \/ \E b \in I.buckets, k \in Keys, u \in UploadIds :
            Count /\ AbortStart(w, b, k, u) /\ Track
    \/ \E b \in I.buckets, k \in Keys, u \in UploadIds :
          \E mp \in I.maxparts, pnm \in I.markers :
            Count /\ ListPartsStart(w, b, k, u, mp, pnm) /\ Track
    \/ \E b \in I.buckets, mu \in I.maxuploads :
            Count /\ ListUploadsStart(w, b, mu, "", NoUploadId, <<>>, <<>>) /\ Track
    \/ \E b \in I.buckets, k \in Keys : Count /\ ObjectDeleteStart(w, b, k, "", FALSE, TRUE) /\ Track

\* Worker w receives an UploadPartCopy request.
ReceiveCopy(w, BS, PN) ==
    \E b \in BS, k \in Keys, u \in UploadIds, n \in PN, c \in CopyOutcomes :
        Count /\ UploadPartCopyStart(w, b, k, u, n, c) /\ Track

\* Worker w makes the next backend call of its request.
Proceed(w) ==
    \/ InitiatePutMarker(w) /\ Stay /\ Track
    \/ HeadMarker(w) /\ Stay /\ Track
    \/ PutPart(w) /\ Stay /\ Track
    \/ PutManifest(w) /\ Stay /\ Track
    \/ CompleteDeleteMarker(w) /\ Stay /\ Track
    \/ AbortDeleteMarker(w) /\ Stay /\ Track
    \/ AbortGetSegments(w) /\ Stay /\ Track
    \/ AbortDeletePart(w) /\ Stay /\ Track
    \/ GetParts(w) /\ Stay /\ Track
    \/ GetUploads(w) /\ Stay /\ Track
    \/ HeadObject(w) /\ Stay /\ Track
    \/ DeleteObject(w) /\ Stay /\ Track

\* The part lists that pass Complete's local validation and claim the hash
\* of the one body the concurrent requests upload.
RaceBody == <<1>>
RaceLists ==
    {p \in PartLists :
        /\ p # <<>>
        /\ PartOrderOk(p)
        /\ \A i \in 1..Len(p) : p[i].etag = PartHash(RaceBody)}

\* Concurrent requests.  A request that fails its local validation makes no
\* backend call after the bucket check, so the concurrent requests are the
\* ones that pass it.
RaceMeta == "baz/quux foo=bar"
RaceHdr == [cl |-> TRUE, te |-> FALSE, md5 |-> "match", xml |-> TRUE]
RaceInputs ==
    [buckets |-> ExistingBuckets, partuids |-> UploadIds,
     pns |-> {Digits(n) : n \in 1..max_upload_part_num},
     lists |-> RaceLists, bodies |-> {RaceBody}, hdrs |-> {RaceHdr},
     metas |-> {RaceMeta}, cmetas |-> {""},
     maxparts |-> {NoParam}, markers |-> {NoParam}, maxuploads |-> {NoParam}]

Next ==
    \E w \in Workers :
        \/ Receive(w, RaceInputs)
        \/ Proceed(w)

Spec == Init /\ [][Next]_vars

\* The values of partNumber: the numbers from 0 to one past the greatest
\* part number, a negative number, no number.
PartNumberParams ==
    {Digits(n) : n \in 0..(max_upload_part_num + 1)} \cup {<<"-", "1">>, <<"x">>}

\* Every request, valid or not, one at a time.
AllInputs ==
    [buckets |-> Buckets, partuids |-> UploadIds \cup {NoUploadId},
     pns |-> PartNumberParams,
     lists |-> PartLists, bodies |-> Payloads, hdrs |-> BodyHeaders,
     metas |-> {RaceMeta}, cmetas |-> {""},
     maxparts |-> {NoParam}, markers |-> {NoParam}, maxuploads |-> {NoParam}]

NextSeq ==
    \/ Receive(1, AllInputs)
    \/ ReceiveCopy(1, Buckets, PartNumberParams)
    \/ Proceed(1)
    \/ HeadSrc(1) /\ Stay /\ Track

SpecSeq == Init /\ [][NextSeq]_vars

\* What earlier requests of a behaviour have left when one request is still
\* to come: nothing; or upload 1 of the key, begun by an Initiate, with any
\* of its parts written by UploadPart with any body, one of them at most
\* written a second time with another body; or the object of upload 1,
\* completed with its one part.
PartsWritten ==
    UNION {[ps -> Payloads] : ps \in SUBSET (1..max_upload_part_num)}
PartObjects(written) ==
    [n \in {SegName("object", 1, p) : p \in DOMAIN written} |->
        [hash |-> PartHash(written[n.part]), bytes |-> Len(written[n.part]),
         meta |-> PartMeta]]
NothingStored ==
    [segments |-> <<>>, manifest |-> [k \in Keys |-> NoObject], nextId |-> 0,
     terminated |-> {}, replaced |-> {}, given |-> <<>>,
     segcontainer |-> FALSE]
UploadStored(written, again) ==
    [NothingStored EXCEPT
        !.segments = [n \in {MarkerName("object", 1)}
                               \cup DOMAIN PartObjects(written) |->
                         IF n.part = 0
                         THEN [hash |-> <<>>, bytes |-> 0, meta |-> RaceMeta]
                         ELSE PartObjects(written)[n]],
        !.nextId = 1,
        !.replaced = {SegName("object", 1, p) : p \in again},
        !.given = [u \in {1} |-> RaceMeta],
        !.segcontainer = TRUE]
ObjectStored(body) ==
    LET written == [p \in {1} |-> body]
        parts == <<[pn |-> 1, etag |-> PartHash(body)]>>
    IN [UploadStored(written, {}) EXCEPT
           !.segments = PartObjects(written),
           !.manifest = [k \in Keys |->
               [uid |-> 1, segs |-> parts, etag |-> S3ETag(parts),
                meta |-> RaceMeta]],
           !.terminated = {1}]
StoredUploads ==
    {NothingStored}
    \cup {UploadStored(written, again) :
            written \in PartsWritten,
            again \in {{}} \cup {{p} : p \in 1..max_upload_part_num}}
    \cup {ObjectStored(body) : body \in Payloads}

InitStoredIn(S) ==
    /\ \E s \in {x \in S : \A n \in x.replaced : n \in DOMAIN x.segments} :
          /\ segments = s.segments
          /\ manifest = s.manifest
          /\ nextId = s.nextId
          /\ terminated = s.terminated
          /\ replaced = s.replaced
          /\ given = s.given
          /\ segcontainer = s.segcontainer
    /\ req = [w \in Workers |-> NoReq]
    /\ nreq = MaxRequests - 1
    /\ orphans = {}

InitStored == InitStoredIn(StoredUploads)

\* Every request, valid or not, on what earlier requests have left with
\* every part written once; the body of a Complete is well framed and has
\* the Content-MD5 of its text.
StoredInputs == [AllInputs EXCEPT !.hdrs = {RaceHdr}]

NextStored ==
    \/ Receive(1, StoredInputs)
    \/ ReceiveCopy(1, Buckets, PartNumberParams)
    \/ Proceed(1)
    \/ HeadSrc(1) /\ Stay /\ Track

SpecStored ==
    InitStoredIn({s \in StoredUploads : s.replaced = {}}) /\ [][NextStored]_vars

\* The same with the Complete requests that have no part or pass the local
\* validation.
WriteInputs == [AllInputs EXCEPT !.lists = {<<>>} \cup RaceLists]

NextWrites ==
    \/ Receive(1, WriteInputs)
    \/ ReceiveCopy(1, Buckets, PartNumberParams)
    \/ Proceed(1)
    \/ HeadSrc(1) /\ Stay /\ Track

SpecWrites == InitStored /\ [][NextWrites]_vars

\* Requests that pass their local validation, one at a time, with the
\* metadata of Initiate and of Complete varied.
MetaInputs ==
    [RaceInputs EXCEPT !.metas = Metas, !.cmetas = Metas \cup {""}]

NextMeta ==
    \/ Receive(1, MetaInputs)
    \/ Proceed(1)

SpecMeta == Init /\ [][NextMeta]_vars

\* One request on what earlier requests have left, with part lists that
\* match the stored parts or not, and a store that sends chunks during the
\* manifest PUT and may refuse a segment.
BeatInputs ==
    [RaceInputs EXCEPT
        !.lists = {p \in PartLists : p # <<>> /\ PartOrderOk(p)},
        !.bodies = Payloads]

NextBeat ==
    \/ Receive(1, BeatInputs)
    \/ Proceed(1)
    \/ \E c \in BackendChunks, late \in BOOLEAN :
          Heartbeat(1, c, late) /\ Stay /\ Track
    \/ PutManifestRefused(1) /\ Stay /\ Track

SpecBeat == InitStored /\ [][NextBeat]_vars

\* One request on what earlier requests have left, with every kind of
\* Complete body, valid or not, and a store that may refuse a segment of the
\* manifest.
RetryInputs ==
    [AllInputs EXCEPT !.hdrs = {h \in BodyHeaders \cup MalformedHeaders :
                                    h.cl /\ ~h.te},
                      !.partuids = UploadIds,
                      !.pns = {Digits(n) : n \in 1..max_upload_part_num}]

NextRetry ==
    \/ Receive(1, RetryInputs)
    \/ Proceed(1)
    \/ PutManifestRefused(1) /\ Stay /\ Track

SpecRetry == InitStored /\ [][NextRetry]_vars

\* Listing requests over a container that earlier uploads have left: upload
\* 1 of the key with the parts 9 and 10, with or without
\* part 1 and an object under its prefix whose name is no part number, and
\* upload 2 with part 1.
ListPartNumbers == {1, 9, 10}
OtherName == -1
ListContainers ==
    {[n \in {MarkerName("object", 1), MarkerName("object", 2),
              SegName("object", 2, 1)}
             \cup {SegName("object", 1, p) : p \in ps} |->
         IF n.part = 0 THEN [hash |-> <<>>, bytes |-> 0, meta |-> RaceMeta]
         ELSE [hash |-> PartHash(RaceBody), bytes |-> Len(RaceBody),
               meta |-> PartMeta]] :
        ps \in {s \in SUBSET (ListPartNumbers \cup {OtherName}) :
                    {9, 10} \subseteq s}}

InitList ==
    /\ segments \in ListContainers
    /\ manifest = [k \in Keys |-> NoObject]
    /\ nextId = 2
    /\ req = [w \in Workers |-> NoReq]
    /\ terminated = {}
    /\ nreq = 0
    /\ orphans = {}
    /\ replaced = {}
    /\ given = [u \in {1, 2} |-> RaceMeta]
    /\ segcontainer = TRUE

\* The values of a numeric parameter: none, no number, a negative number,
\* small numbers, the greatest number taken and the one after it.
OverMax == [Digits(MAX_32BIT_INT) EXCEPT ![Len(Digits(MAX_32BIT_INT))] = "8"]
BadParams == {<<"x">>, <<"-", "1">>, OverMax}
LimitParams ==
    {NoParam, Digits(MAX_32BIT_INT)}
        \cup {Digits(n) : n \in 1..(max_parts_listing + 1)}
MarkerParams ==
    {Digits(n) : n \in {0} \cup ListPartNumbers} \cup {Digits(MAX_32BIT_INT)}

\* Worker 1 asks for the first page of a listing, worker 2 for the page
\* after a marker.
NextList ==
    \/ \E u \in UploadIds, mp \in LimitParams \cup BadParams :
          Count /\ ListPartsStart(1, "bucket", "object", u, mp, NoParam) /\ Track
    \/ \E b \in Buckets, pnm \in BadParams :
          Count /\ ListPartsStart(1, b, "object", 1, NoParam, pnm) /\ Track
    \/ \E mp \in {NoParam, Digits(1)}, pnm \in MarkerParams \cup {OverMax} :
          Count /\ ListPartsStart(2, "bucket", "object", 1, mp, pnm) /\ Track
    \/ \E b \in Buckets, mu \in {NoParam, Digits(1),
                                  Digits(DEFAULT_MAX_UPLOADS + 1)}
                                     \cup BadParams :
          Count /\ ListUploadsStart(1, b, mu, "", NoUploadId, <<>>, <<>>) /\ Track
    \/ \E w \in Workers : HeadMarker(w) /\ Stay /\ Track
    \/ \E w \in Workers : GetParts(w) /\ Stay /\ Track
    \/ \E w \in Workers : GetUploads(w) /\ Stay /\ Track

SpecList == InitList /\ [][NextList]_vars

\* Upload listings over the containers earlier requests have left: two
\* uploads of one key and uploads of keys under dir/, each with or without
\* parts, and a bucket that never had an upload (no segments container).
ListedUploads ==
    {<<"object", 1>>, <<"object", 2>>, <<"dir/object", 3>>,
     <<"dir/sub/object", 4>>}
UploadContainer(U, P) ==
    [n \in {MarkerName(x[1], x[2]) : x \in U}
            \cup {SegName(x[1], x[2], p) : x \in P, p \in {1, 2}} |->
        IF n.part = 0 THEN [hash |-> <<>>, bytes |-> 0, meta |-> RaceMeta]
        ELSE [hash |-> PartHash(RaceBody), bytes |-> Len(RaceBody),
              meta |-> PartMeta]]
UploadContainers ==
    {UploadContainer(ListedUploads, {}),
     UploadContainer(ListedUploads, ListedUploads),
     UploadContainer(ListedUploads \ {<<"object", 2>>}, {}),
     UploadContainer({<<"object", 1>>, <<"object", 2>>}, {}),
     UploadContainer({<<"object", 1>>, <<"object", 2>>}, {<<"object", 1>>})}

InitUploads ==
    /\ segcontainer \in BOOLEAN
    /\ segments \in IF segcontainer THEN UploadContainers ELSE {<<>>}
    /\ manifest = [k \in Keys |-> NoObject]
    /\ nextId = 4
    /\ req = [w \in Workers |-> NoReq]
    /\ terminated = {}
    /\ nreq = 0
    /\ orphans = {}
    /\ replaced = {}
    /\ given = [u \in 1..4 |-> RaceMeta]

\* The parameters of an upload listing.
UploadLimitParams ==
    {NoParam} \cup {Digits(n) : n \in 1..(DEFAULT_MAX_UPLOADS + 1)}
PrefixParams == {<<>>, <<"d", "/">>}
DelimiterParams == {<<>>, <<"/">>, <<"s", "/">>}

\* Worker 1 asks for a first page, worker 2 for the page after the markers
\* of the page worker 1 was given, or after its NextKeyMarker alone.
NextUploads ==
    \/ \E mu \in UploadLimitParams, pre \in PrefixParams,
          del \in DelimiterParams :
          Count /\ ListUploadsStart(1, "bucket", mu, "", NoUploadId, pre, del)
                /\ Track
    \/ \E mu \in {NoParam, Digits(1)}, um \in {req[1].next, NoUploadId} :
          /\ req[1].pc = "done" /\ req[1].status = "200"
          /\ req[1].nextkey # ""
          /\ Count
          /\ ListUploadsStart(2, "bucket", mu, req[1].nextkey, um,
                              req[1].prefix, req[1].delimiter)
          /\ Track
    \/ \E w \in Workers : GetUploads(w) /\ Stay /\ Track

SpecUploads == InitUploads /\ [][NextUploads]_vars

\* Delete Multiple Objects requests, one at a time, over a bucket with or
\* without the object.
InitDelete ==
    /\ manifest \in [Keys -> {NoObject, PlainObject, MultipartObject}]
    /\ segments =
          [n \in UNION {{SegName(k, manifest[k].uid, manifest[k].segs[i].pn) :
                            i \in DOMAIN manifest[k].segs} : k \in Keys} |->
              [hash |-> PartHash(<<1>>), bytes |-> 1, meta |-> PartMeta]]
    /\ nextId = 0
    /\ req = [w \in Workers |-> NoReq]
    /\ terminated = {}
    /\ nreq = 0
    /\ orphans = {}
    /\ replaced = {}
    /\ given = <<>>
    /\ segcontainer = FALSE

\* The lists of keys sent with a body that is not as it should be.
FaultLists == {keys \in DeleteLists : Len(keys) \in {0, 2}}

DeleteAnswers == {"403", "404", "204", "200", "200 errors", "200 unparsable"}

NextDelete ==
    \/ \E b \in Buckets, keys \in DeleteLists, quiet \in BOOLEAN :
          /\ nreq < MaxDeleteRequests
          /\ Count /\ MultiDeleteStart(1, b, keys, quiet, GoodBody) /\ Track
    \/ \E keys \in FaultLists, quiet \in BOOLEAN, body \in DeleteBodies :
          /\ nreq < MaxDeleteRequests
          /\ Count /\ MultiDeleteStart(1, "bucket", keys, quiet, body) /\ Track
    \/ \E j \in 1..max_multi_delete_objects, ans \in DeleteAnswers :
          DeleteDone(1, j, ans) /\ Stay /\ Track
    \/ Retrieve(1) /\ Stay /\ Track

SpecDelete == InitDelete /\ [][NextDelete]_vars

\* ------------------------------------------------------- check_pipeline
\* The names of the filters of a pipeline, and the pipelines.
Filters ==
    {"s3api", "proxy-server", "slo", "tempauth", "keystoneauth", "s3token"}
Pipelines == UNION {[1..n -> Filters] : n \in 0..MaxPipeline}

\* The lists of required filters check_filter_order is called with.
RequiredLists == UNION {[1..n -> Filters] : n \in 1..2}

\* list.index: the place of the first element equal to f at or after place
\* i, 0 where list.index raises ValueError.
RECURSIVE IndexFrom(_, _, _)
IndexFrom(pipeline, f, i) ==
    IF i > Len(pipeline) THEN 0
    ELSE IF pipeline[i] = f THEN i
    ELSE IndexFrom(pipeline, f, i + 1)
Index(pipeline, f) == IndexFrom(pipeline, f, 1)

\* f in pipeline
In(f, pipeline) == \E i \in DOMAIN pipeline : pipeline[i] = f

\* check_filter_order: "ValueError" where it raises, "" where it returns.
\* (check_filter_order_present: without the comparison of the indexes.)
check_filter_order_present(pipeline, required_filters) ==
    LET missing_filters ==
            SelectSeq(required_filters, LAMBDA f : Index(pipeline, f) = 0)
    IN IF missing_filters # <<>> THEN "ValueError" ELSE ""
check_filter_order(pipeline, required_filters) ==
    LET missing_filters ==
            SelectSeq(required_filters, LAMBDA f : Index(pipeline, f) = 0)
        indexes == [i \in DOMAIN required_filters |->
                       Index(pipeline, required_filters[i])]
    IN IF missing_filters # <<>> THEN "ValueError"
       ELSE IF indexes # SortSeq(indexes, LAMBDA a, b : a < b) THEN "ValueError"
       ELSE ""

\* pipeline[pipeline.index('s3api') + 1 : pipeline.index('proxy-server')]
AuthPipeline(pipeline) ==
    SubSeq(pipeline, Index(pipeline, "s3api") + 1,
           Index(pipeline, "proxy-server") - 1)

\* The configurations: whether the configuration comes from a file (there
\* is no pipeline to check otherwise), auth_pipeline_check and
\* allow_multipart_uploads.
Confs ==
    [file : BOOLEAN, auth_pipeline_check : BOOLEAN,
     allow_multipart_uploads : BOOLEAN]

\* check_pipeline: what it raises and slo_enabled after it.
check_pipeline(conf, pipeline) ==
    LET slo_enabled == conf.allow_multipart_uploads
        auth_pipeline == AuthPipeline(pipeline)
    IN IF ~conf.file THEN [raised |-> "", slo_enabled |-> slo_enabled]
       ELSE IF check_filter_order(pipeline, <<"s3api", "proxy-server">>) # ""
       THEN [raised |-> "ValueError", slo_enabled |-> slo_enabled]
       ELSE [slo_enabled |-> slo_enabled /\ In("slo", auth_pipeline),
             raised |->
               IF ~conf.auth_pipeline_check THEN ""
               ELSE IF In("tempauth", auth_pipeline) THEN ""
               ELSE IF In("keystoneauth", auth_pipeline)
               THEN check_filter_order(auth_pipeline,
                                       <<"s3token", "keystoneauth">>)
               ELSE IF Len(auth_pipeline) # 0 THEN ""
               ELSE "ValueError"]

\* A call of check_filter_order on the pipeline.
CheckFilterOrder(w, required_filters) ==
    /\ req[w].op = "idle"
    /\ req' = [req EXCEPT ![w] =
         [req[w] EXCEPT !.op = "check_filter_order", !.pc = "done",
                        !.required = required_filters,
                        !.raised = check_filter_order(req[w].pipeline,
                                                      required_filters)]]
    /\ UNCHANGED <<segments, manifest, nextId, terminated>>

\* S3Middleware.__init__: slo_enabled = allow_multipart_uploads, then
\* check_pipeline.
CheckPipeline(w, conf) ==
    /\ req[w].op = "idle"
    /\ LET out == check_pipeline(conf, req[w].pipeline)
       IN req' = [req EXCEPT ![w] =
            [req[w] EXCEPT !.op = "check_pipeline", !.pc = "done",
                           !.conf = conf,
                           !.raised = out.raised,
                           !.slo_enabled = out.slo_enabled]]
    /\ UNCHANGED <<segments, manifest, nextId, terminated>>

\* The pipeline of the configuration file is any pipeline.
InitPipeline ==
    /\ segments = <<>>
    /\ manifest = [k \in Keys |-> NoObject]
    /\ nextId = 0
    /\ \E p \in Pipelines :
          req = [w \in Workers |->
                    IF w = 1 THEN [NoReq EXCEPT !.pipeline = p] ELSE NoReq]
    /\ terminated = {}
    /\ nreq = 0
    /\ orphans = {}
    /\ replaced = {}
    /\ given = <<>>
    /\ segcontainer = FALSE

NextPipeline ==
    \/ \E required_filters \in RequiredLists :
          CheckFilterOrder(1, required_filters) /\ Stay /\ Track
    \/ \E conf \in Confs : CheckPipeline(1, conf) /\ Stay /\ Track

SpecPipeline == InitPipeline /\ [][NextPipeline]_vars

\* DELETE Object requests of concurrent workers on a bucket with no object,
\* an object or a multipart object.
NextObject ==
    \E w \in Workers :
        \/ \E b \in Buckets, k \in Keys, vid \in VersionIds,
              history \in BOOLEAN, slo \in BOOLEAN :
              Count /\ ObjectDeleteStart(w, b, k, vid, history, slo) /\ Track
        \/ HeadObject(w) /\ Stay /\ Track
        \/ ObjectInfo(w) /\ Stay /\ Track
        \/ DeleteObject(w) /\ Stay /\ Track

SpecObject == InitDelete /\ [][NextObject]_vars

\* Requests of any method to the controllers, one at a time.
NextCall ==
    \/ \E c \in Controllers, m \in Methods, tid \in BOOLEAN,
          built \in {"ok"} \cup Raised :
          Count /\ CallStart(1, c, m, tid, built) /\ Track
    \/ HandleRequest(1) /\ Stay /\ Track
    \/ \E out \in {"ok"} \cup Raised : HandlerDone(1, out) /\ Stay /\ Track
    \/ Send(1) /\ Stay /\ Track

SpecCall == Init /\ [][NextCall]_vars

\* The store answers every DELETE, and a request that waits for a result
\* runs when there is one.
SpecDeleteFair ==
    /\ SpecDelete
    /\ WF_vars(\E j \in 1..max_multi_delete_objects, ans \in DeleteAnswers :
                  DeleteDone(1, j, ans) /\ Stay /\ Track)
    /\ WF_vars(Retrieve(1) /\ Stay /\ Track)

\* ------------------------------------------------------------- properties
\* Worker w has the response of a request of this kind on record.
DoneWith(w, op) == req[w].op = op /\ req[w].pc = "done"

\* The part objects of an upload that are in the segments container.
PartsOf(k, u) == {n \in DOMAIN segments : n.key = k /\ n.uid = u /\ n.part > 0}

\* C1 as stated: once an Abort has returned 204, neither the marker nor any
\* part object of that upload is in the segments container.
C1_AbortLeavesNoPart ==
    \A w \in Workers :
        DoneWith(w, "Abort") /\ req[w].status = "204" =>
            /\ ~Exists(MarkerOf(req[w]))
            /\ PartsOf(req[w].key, req[w].uid) = {}

\* C1, amended: an Abort that deleted the marker returns 204 whatever the
\* part deletes answer (a 404 is absorbed); after it the marker is gone for
\* good, and the only parts of the upload still stored are those written by
\* an UploadPart that had passed the marker check before the marker was
\* deleted.  An Abort ends with 204 or NoSuchUpload, two Aborts of one upload
\* never both return 204, and an Abort received after the upload has ended
\* returns NoSuchUpload.
C1_AbortTerminates ==
    \A w \in Workers :
        req[w].op = "Abort" =>
            /\ req[w].pc \in {"get_segments", "delete_part"} =>
                   ~Exists(MarkerOf(req[w]))
            /\ req[w].pc = "done" =>
                   /\ req[w].status \in {"204", "NoSuchUpload"}
                   /\ "GET segments" \in Range(req[w].calls) => req[w].status = "204"
                   /\ req[w].uid \in req[w].ended => req[w].status = "NoSuchUpload"
                   /\ req[w].status = "204" =>
                         /\ ~Exists(MarkerOf(req[w]))
                         /\ PartsOf(req[w].key, req[w].uid) \subseteq orphans
                         /\ \A v \in Workers \ {w} :
                               /\ DoneWith(v, "Abort")
                               /\ req[v].key = req[w].key
                               /\ req[v].uid = req[w].uid
                               => req[v].status = "NoSuchUpload"

\* An Abort returned 204 although one of the parts it had listed was gone
\* when it came to delete it.
C1_Witness ==
    \E w \in Workers :
        DoneWith(w, "Abort") /\ req[w].status = "204" /\ req[w].absorbed

\* C2 as stated: after a Complete that returned success, neither the marker
\* nor any part object of that upload is in the segments container.
C2_CompleteLeavesNoPart ==
    DoneWith(1, "Complete") /\ req[1].status = "200" =>
        /\ ~Exists(MarkerOf(req[1]))
        /\ PartsOf(req[1].key, req[1].uid) = {}

\* C2, amended: after a Complete that returned success the marker of the
\* upload is not in the segments container; the part objects the manifest
\* names are all still there, and Complete made exactly the calls HEAD
\* bucket, HEAD marker, PUT manifest, DELETE marker.
C2_CompleteRemovesMarkerOnly ==
    DoneWith(1, "Complete") /\ req[1].status = "200" =>
        /\ ~Exists(MarkerOf(req[1]))
        /\ \A i \in 1..Len(req[1].parts) :
              Exists(SegName(req[1].key, req[1].uid, req[1].parts[i].pn))
        /\ req[1].calls =
              <<"HEAD bucket", "HEAD marker", "PUT manifest", "DELETE marker">>

\* A Complete of two parts returned success.
C2_Witness ==
    /\ DoneWith(1, "Complete")
    /\ req[1].status = "200"
    /\ Len(req[1].parts) = 2

\* C3: an upload that a Complete or an Abort has ended has no marker ever
\* again; every UploadPart, ListParts, Complete and Abort received after the
\* end of its upload fails with NoSuchUpload, and a ListUploads received
\* after it does not list the upload.
C3_TerminalState ==
    /\ \A u \in terminated, k \in Keys : ~Exists(MarkerName(k, u))
    /\ \A w \in Workers :
          /\ req[w].pc = "done"
          /\ req[w].op \in {"UploadPart", "ListParts", "Complete", "Abort"}
          /\ req[w].uid \in req[w].ended
          => req[w].status = "NoSuchUpload"
    /\ \A w \in Workers :
          DoneWith(w, "ListUploads") =>
              \A i \in 1..Len(req[w].listing) :
                  /\ req[w].listing[i].uid \notin req[w].ended
                  /\ req[w].listing[i].uid \in 1..nextId

\* An UploadPart received after the Complete of its upload had returned
\* success was answered NoSuchUpload.
C3_Witness ==
    \E w \in Workers :
        /\ DoneWith(w, "UploadPart")
        /\ req[w].uid \in req[w].ended
        /\ manifest[req[w].key].uid = req[w].uid
        /\ req[w].status = "NoSuchUpload"

PartWriters == {"UploadPart", "UploadPartCopy"}

\* C4: an UploadPart or UploadPartCopy whose marker is not found ends with
\* NoSuchUpload without changing the store, having called nothing but HEAD
\* bucket and HEAD marker; and every PUT of a part comes after the HEAD of
\* the marker in the calls of its request.
C4_MarkerCheckedBeforeWrite ==
    /\ [](\A w \in Workers :
            req[w].op \in PartWriters =>
               /\ req[w].status = "NoSuchUpload" =>
                      req[w].calls = <<"HEAD bucket", "HEAD marker">>
               /\ \A j \in 1..Len(req[w].calls) :
                      req[w].calls[j] = "PUT part" =>
                          \E i \in 1..(j - 1) : req[w].calls[i] = "HEAD marker")
    /\ [][\A w \in Workers :
            /\ req[w].op \in PartWriters
            /\ req[w].pc = "head_marker"
            /\ ~Exists(MarkerOf(req[w]))
            /\ req'[w] # req[w]
            => /\ req'[w].pc = "done"
               /\ req'[w].status = "NoSuchUpload"
               /\ segments' = segments]_vars

\* An UploadPartCopy on an upload without marker was answered NoSuchUpload.
C4_Witness ==
    /\ DoneWith(1, "UploadPartCopy")
    /\ req[1].status = "NoSuchUpload"
    /\ ~Exists(MarkerOf(req[1]))

\* A part list with an entry whose number is not above the one before it.
NotIncreasing(parts) ==
    \E i \in 1..(Len(parts) - 1) : parts[i + 1].pn <= parts[i].pn

\* A strictly increasing part list that skips a number.
HasGap(parts) ==
    /\ ~NotIncreasing(parts)
    /\ \E i \in 1..(Len(parts) - 1) : parts[i + 1].pn > parts[i].pn + 1

\* A Complete that is rejected for its part list calls neither PUT manifest
\* nor DELETE, and ends with InvalidPartOrder unless its upload is not found
\* or its Content-MD5 is not the digest of its body.
OrderRejected(r) ==
    /\ "PUT manifest" \notin Range(r.calls)
    /\ "DELETE marker" \notin Range(r.calls)
    /\ r.pc = "done" =>
          /\ r.status \in {"InvalidPartOrder", "NoSuchUpload", "BadDigest"}
          /\ r.status = "BadDigest" <=>
                r.hdr.md5 = "mismatch" /\ "HEAD marker" \in Range(r.calls)
                                      /\ r.status # "NoSuchUpload"

\* A step of such a Complete changes neither the segments container nor the
\* bucket, and the step that finds the marker ends it with InvalidPartOrder.
OrderRejectedStep(w) ==
    /\ segments' = segments
    /\ manifest' = manifest
    /\ req[w].pc = "head_marker" /\ Exists(MarkerOf(req[w])) =>
          /\ req'[w].pc = "done"
          /\ req'[w].status = IF req[w].hdr.md5 = "mismatch" THEN "BadDigest"
                              ELSE "InvalidPartOrder"

\* C5: a Complete whose part list has a descending entry or a repeated part
\* number ends with InvalidPartOrder when its upload exists, writes no
\* manifest and deletes neither the marker nor a part.
C5_InvalidPartOrder ==
    /\ [](\A w \in Workers :
            req[w].op = "Complete" /\ NotIncreasing(req[w].parts) =>
                OrderRejected(req[w]))
    /\ [][\A w \in Workers :
            /\ req'[w].op = "Complete"
            /\ NotIncreasing(req'[w].parts)
            /\ req'[w] # req[w]
            => OrderRejectedStep(w)]_vars

\* A Complete of an existing upload with parts 2, 1 was answered
\* InvalidPartOrder.
C5_Witness ==
    /\ DoneWith(1, "Complete")
    /\ Len(req[1].parts) = 2
    /\ req[1].parts[1].pn = 2
    /\ req[1].parts[2].pn = 1
    /\ req[1].hdr.md5 = "match"
    /\ req[1].status = "InvalidPartOrder"

\* C6: a Complete whose part list skips a part number is rejected as
\* malformed (InvalidPartOrder) when its upload exists, and writes no
\* manifest.
C6_GapRejected ==
    /\ [](\A w \in Workers :
            req[w].op = "Complete" /\ HasGap(req[w].parts) =>
                OrderRejected(req[w]))
    /\ [][\A w \in Workers :
            /\ req'[w].op = "Complete"
            /\ HasGap(req'[w].parts)
            /\ req'[w] # req[w]
            => OrderRejectedStep(w)]_vars

\* A Complete of an existing upload with parts 1, 3 was answered
\* InvalidPartOrder while part 1 was stored with the hash the list gives.
C6_Witness ==
    /\ DoneWith(1, "Complete")
    /\ Len(req[1].parts) = 2
    /\ req[1].parts[1].pn = 1
    /\ req[1].parts[2].pn = 3
    /\ Exists(SegName(req[1].key, req[1].uid, 1))
    /\ segments[SegName(req[1].key, req[1].uid, 1)].hash = req[1].parts[1].etag
    /\ req[1].status = "InvalidPartOrder"

RECURSIVE RawBytes(_, _)
\* The raw hash bytes of the first n entries of a part list, one after the
\* other.
RawBytes(parts, n) ==
    IF n = 0 THEN <<>>
    ELSE RawBytes(parts, n - 1) \o
         [i \in 1..(Len(parts[n].etag) \div 2) |->
             16 * parts[n].etag[2 * i - 1] + parts[n].etag[2 * i]]

\* C7: the ETag of a successful Complete of N parts is the hex digest of the
\* md5 of the parts' raw hash bytes in the order of the client's list, with
\* the suffix -N; it is the ETag stored with the manifest, and it is the
\* hash of none of the parts.
C7_CompositeETag ==
    DoneWith(1, "Complete") /\ req[1].status = "200" =>
        LET parts == req[1].parts
            N == Len(parts)
        IN /\ req[1].etag.count = N
           /\ N >= 1
           /\ A2bHex(req[1].etag.hex) = MD5(RawBytes(parts, N))
           /\ req[1].etag.hex = HexDigest(MD5(RawBytes(parts, N)))
           /\ manifest[req[1].key].etag = req[1].etag
           /\ \A i \in 1..N :
                 /\ req[1].etag # PlainETag(parts[i].etag)
                 /\ req[1].etag.hex # parts[i].etag

\* A Complete of two parts with different hashes returned success.
C7_Witness ==
    /\ DoneWith(1, "Complete")
    /\ req[1].status = "200"
    /\ Len(req[1].parts) = 2
    /\ req[1].parts[1].etag # req[1].parts[2].etag
    /\ req[1].etag.count = 2

\* C8: the PUT of part p of an upload leaves exactly one entry for p in what
\* ListParts reports, with the hash and the size of the body just sent, and
\* leaves the entries of all other parts, and all other objects, as they
\* were; what a ListParts returns is the listing of the stored parts, one
\* entry per part number.
C8_UploadPartReplaces ==
    /\ [](DoneWith(1, "ListParts") /\ req[1].status = "200" =>
            /\ req[1].listing = PartListing(req[1].key, req[1].uid)
            /\ \A i, j \in 1..Len(req[1].listing) :
                  i < j => req[1].listing[i].pn < req[1].listing[j].pn)
    /\ [][\A w \in Workers :
            req[w].pc = "put_part" /\ req'[w].pc = "done" =>
                LET r == req[w]
                    before == PartListing(r.key, r.uid)
                    after == PartListingOf(segments', r.key, r.uid)
                    At(l, p) == {i \in 1..Len(l) : l[i].pn = p}
                IN /\ Cardinality(At(after, r.pn)) = 1
                   /\ \A i \in At(after, r.pn) :
                         /\ after[i].hash = PartHash(r.body)
                         /\ after[i].bytes = Len(r.body)
                   /\ \A p \in 1..max_upload_part_num \ {r.pn} :
                         {after[i] : i \in At(after, p)} =
                         {before[i] : i \in At(before, p)}
                   /\ \A n \in (DOMAIN segments \cup DOMAIN segments')
                                 \ {SegName(r.key, r.uid, r.pn)} :
                         /\ n \in DOMAIN segments
                         /\ n \in DOMAIN segments'
                         /\ segments'[n] = segments[n]]_vars

\* A ListParts reported a part whose object had replaced one with another
\* hash, next to another part.
C8_Witness ==
    /\ DoneWith(1, "ListParts")
    /\ req[1].status = "200"
    /\ Len(req[1].listing) = 2
    /\ \E i \in 1..Len(req[1].listing) :
          SegName(req[1].key, req[1].uid, req[1].listing[i].pn) \in replaced

C10_OtherUploadsUntouched ==
    [][\A w \in Workers :
         /\ req'[w] # req[w]
         /\ req'[w].op \in {"Initiate", "UploadPart", "Complete", "Abort"}
         => /\ \A n \in DOMAIN segments \cup DOMAIN segments' :
                  n.uid # req'[w].uid =>
                      /\ n \in DOMAIN segments
                      /\ n \in DOMAIN segments'
                      /\ segments'[n] = segments[n]
            /\ \A k \in Keys, y \in UploadIds \ {req'[w].uid} :
                  PartListingOf(segments', k, y) = PartListing(k, y)]_vars

\* An Abort that deleted a part returned 204 while another upload of the
\* same key has its marker and a part.
C10_Witness ==
    \E w \in Workers :
        /\ DoneWith(w, "Abort")
        /\ req[w].status = "204"
        /\ "DELETE part" \in Range(req[w].calls)
        /\ \E y \in UploadIds \ {req[w].uid} :
              /\ Exists(MarkerName(req[w].key, y))
              /\ PartsOf(req[w].key, y) # {}

\* C11: an Initiate on a bucket that does not exist ends with NoSuchBucket
\* after the HEAD of the bucket, without an upload id and without a write;
\* an Initiate on an existing bucket calls HEAD bucket, HEAD account, HEAD
\* segments and then PUT marker, and that PUT creates the one object
\* key/uploadId, which did not exist, and changes nothing else.
C11_InitiateChecksBucket ==
    /\ [](\A w \in Workers :
            req[w].op = "Initiate" =>
               /\ req[w].bucket \notin ExistingBuckets =>
                     /\ req[w].pc = "done"
                     /\ req[w].status = "NoSuchBucket"
                     /\ req[w].uid = 0
                     /\ req[w].calls = <<"HEAD bucket">>
               /\ req[w].bucket \in ExistingBuckets /\ req[w].pc = "done" =>
                     /\ req[w].status = "200"
                     /\ req[w].calls = <<"HEAD bucket", "HEAD account",
                                         "HEAD segments", "PUT marker">>)
    /\ [][\A w \in Workers :
            req'[w].op = "Initiate" /\ req'[w] # req[w] =>
               IF req'[w].pc = "done" /\ req'[w].status = "200"
               THEN /\ ~Exists(MarkerOf(req'[w]))
                    /\ DOMAIN segments' = DOMAIN segments \cup {MarkerOf(req'[w])}
                    /\ \A n \in DOMAIN segments : segments'[n] = segments[n]
               ELSE segments' = segments]_vars

\* An Initiate on the missing bucket was answered NoSuchBucket while the
\* segments container holds the marker of an earlier Initiate.
C11_Witness ==
    /\ DoneWith(1, "Initiate")
    /\ req[1].bucket = "nobucket"
    /\ req[1].status = "NoSuchBucket"
    /\ \E u \in UploadIds : Exists(MarkerName("object", u))

\* C12: a Complete without a part in its body, on an existing bucket, never
\* calls PUT manifest or DELETE and changes nothing in the store; once its
\* marker is found it ends with InvalidRequest, whether or not it carries
\* Content-Length or Transfer-Encoding and whatever its Content-MD5.
C12_EmptyPartList ==
    /\ [](\A w \in Workers :
            /\ req[w].op = "Complete"
            /\ req[w].bucket \in ExistingBuckets
            /\ req[w].parts = <<>>
            => /\ "PUT manifest" \notin Range(req[w].calls)
               /\ "DELETE marker" \notin Range(req[w].calls)
               /\ req[w].pc = "done" =>
                     req[w].status \in {"InvalidRequest", "NoSuchUpload"})
    /\ [][\A w \in Workers :
            /\ req'[w].op = "Complete"
            /\ req'[w].bucket \in ExistingBuckets
            /\ req'[w].parts = <<>>
            /\ req'[w] # req[w]
            => /\ segments' = segments
               /\ manifest' = manifest
               /\ req[w].pc = "head_marker" /\ Exists(MarkerOf(req[w])) =>
                     req'[w].pc = "done" /\ req'[w].status = "InvalidRequest"]_vars

\* A Complete with an empty chunked body without Content-Length, and with a
\* Content-MD5 that is not the digest of the empty body, was answered
\* InvalidRequest.
C12_Witness ==
    /\ DoneWith(1, "Complete")
    /\ req[1].parts = <<>>
    /\ req[1].hdr = [cl |-> FALSE, te |-> TRUE, md5 |-> "mismatch",
                     xml |-> TRUE]
    /\ req[1].status = "InvalidRequest"

\* The client's pair i of a Complete names a stored part of the upload with
\* the hash the client gives.
PairMatches(r, i) ==
    /\ Exists(SegName(r.key, r.uid, r.parts[i].pn))
    /\ segments[SegName(r.key, r.uid, r.parts[i].pn)].hash = r.parts[i].etag

\* C13: the manifest PUT of a Complete with a pair that matches no stored
\* part (no part of that number, or another hash) ends the Complete with
\* InvalidPart and writes nothing; with every pair matching it does not
\* answer InvalidPart; and a Complete that returned success has every pair
\* matching.
C13_InvalidPart ==
    /\ [](DoneWith(1, "Complete") /\ req[1].status = "200" =>
            \A i \in 1..Len(req[1].parts) : PairMatches(req[1], i))
    /\ [][\A w \in Workers :
            req[w].pc = "put_manifest" /\ req'[w] # req[w] =>
               IF \E i \in 1..Len(req[w].parts) : ~PairMatches(req[w], i)
               THEN /\ req'[w].pc = "done"
                    /\ req'[w].status = "InvalidPart"
                    /\ manifest' = manifest
                    /\ segments' = segments
               ELSE req'[w].status # "InvalidPart"]_vars

\* A Complete was answered InvalidPart although every part it names is
\* stored: one of them with another hash.
C13_Witness ==
    /\ DoneWith(1, "Complete")
    /\ req[1].status = "InvalidPart"
    /\ Len(req[1].parts) = 2
    /\ \A i \in 1..2 : Exists(SegName(req[1].key, req[1].uid, req[1].parts[i].pn))
    /\ PairMatches(req[1], 1)
    /\ ~PairMatches(req[1], 2)

\* The stored size of the part that pair i of a Complete names.
StoredBytes(r, i) == segments[SegName(r.key, r.uid, r.parts[i].pn)].bytes

\* C14: the manifest PUT of a Complete whose pairs all match ends with
\* EntityTooSmall, with the store's message and without a write, exactly
\* when a part other than the last is smaller than min_segment_size;
\* otherwise it writes the manifest, whatever the size of the last part.
C14_MinimumSegmentSize ==
    [][\A w \in Workers :
         /\ req[w].pc = "put_manifest"
         /\ req'[w] # req[w]
         /\ \A i \in 1..Len(req[w].parts) : PairMatches(req[w], i)
         => IF \E i \in 1..(Len(req[w].parts) - 1) :
                  StoredBytes(req[w], i) < min_segment_size
            THEN /\ req'[w].pc = "done"
                 /\ req'[w].status = "EntityTooSmall"
                 /\ req'[w].msg.least = min_segment_size
                 /\ \E i \in 1..(Len(req[w].parts) - 1) :
                       /\ req'[w].msg.seg = req[w].parts[i].pn
                       /\ StoredBytes(req[w], i) < min_segment_size
                 /\ manifest' = manifest
                 /\ segments' = segments
            ELSE /\ req'[w].pc = "delete_marker"
                 /\ manifest'[req[w].key].uid = req[w].uid
                 /\ manifest'[req[w].key].segs = req[w].parts]_vars

\* A Complete of two parts whose last part has 0 bytes returned success.
C14_Witness ==
    /\ DoneWith(1, "Complete")
    /\ req[1].status = "200"
    /\ Len(req[1].parts) = 2
    /\ StoredBytes(req[1], 2) = 0
    /\ StoredBytes(req[1], 1) >= min_segment_size

\* C15: a Complete that has written the manifest ends with success: the
\* DELETE of the marker answers the request with 200 whether or not it finds
\* the marker, and no Complete that called PUT manifest successfully ends
\* with anything else.
C15_CleanupFailureSwallowed ==
    /\ [](\A w \in Workers :
            /\ DoneWith(w, "Complete")
            /\ "DELETE marker" \in Range(req[w].calls)
            => req[w].status = "200")
    /\ [][\A w \in Workers :
            /\ req[w].op = "Complete"
            /\ req[w].pc = "delete_marker"
            /\ req'[w] # req[w]
            => /\ req'[w].pc = "done"
               /\ req'[w].status = "200"
               /\ req'[w].etag = req[w].etag
               /\ manifest' = manifest
               /\ ~Exists(MarkerOf(req[w])) => segments' = segments]_vars

\* Two Completes of one upload both returned success; the marker was gone
\* when the second came to delete it.
C15_Witness ==
    \E w, v \in Workers :
        /\ w # v
        /\ DoneWith(w, "Complete") /\ DoneWith(v, "Complete")
        /\ req[w].uid = req[v].uid
        /\ req[w].status = "200" /\ req[v].status = "200"
        /\ req[w].absorbed /\ ~req[v].absorbed

\* C16: the content-type and user metadata of the manifest at a key are
\* those the Initiate of the manifest's upload id was sent with, and so are
\* those of every marker object as long as it exists.
C16_ManifestMetadata ==
    /\ \A k \in Keys :
          manifest[k] # NoObject =>
              /\ manifest[k].uid \in DOMAIN given
              /\ manifest[k].meta = given[manifest[k].uid]
    /\ \A n \in DOMAIN segments :
          n.part = 0 => n.uid \in DOMAIN given /\ segments[n].meta = given[n.uid]

\* A Complete that carried metadata of its own returned success, the
\* manifest has the metadata of its upload's Initiate, which are neither
\* those of the Complete request nor those of the other upload.
C16_Witness ==
    /\ DoneWith(1, "Complete")
    /\ req[1].status = "200"
    /\ manifest[req[1].key].uid = req[1].uid
    /\ req[1].meta \in Metas
    /\ manifest[req[1].key].meta # req[1].meta
    /\ manifest[req[1].key].meta # PartMeta
    /\ \E y \in DOMAIN given \ {req[1].uid} :
          given[y] # manifest[req[1].key].meta

\* The text of a numeric parameter that is to be rejected: no integer, a
\* negative one, or one greater than 2^31 - 1.
ParamRejected(s) ==
    /\ s # NoParam
    /\ \/ ~IsInteger(s)
       \/ IsNegative(s)
       \/ NumeralAbove(Magnitude(s), Digits(MAX_32BIT_INT))

PartNumberInBounds(n) ==
    /\ IsDigits(n)
    /\ \E p \in 1..max_upload_part_num : n = Digits(p)

\* C18: an UploadPart to an existing bucket without uploadId, or whose
\* partNumber is no number, smaller than 1 or greater than
\* max_upload_part_num, ends with InvalidArgument and has written no part;
\* one with a partNumber from 1 to max_upload_part_num for an upload that
\* has been initiated and not terminated ends with 200 and the part is
\* stored under that number.
C18_PartNumberBounds ==
    LET r == req[1]
    IN DoneWith(1, "UploadPart") /\ BucketExists(r.bucket) =>
          IF r.uid = NoUploadId \/ ~PartNumberInBounds(r.partNumber)
          THEN /\ r.status = "InvalidArgument"
               /\ "PUT part" \notin Range(r.calls)
          ELSE /\ r.status # "InvalidArgument"
               /\ (r.uid \in DOMAIN given /\ r.ended = {} =>
                      /\ r.status = "200"
                      /\ r.partNumber = Digits(r.pn)
                      /\ Exists(SegName(r.key, r.uid, r.pn)))

\* The part with the greatest number allowed has been stored, and there is
\* no part with the number after it.
C18_Witness ==
    /\ DoneWith(1, "UploadPart")
    /\ req[1].status = "200"
    /\ req[1].partNumber = Digits(max_upload_part_num)
    /\ Exists(SegName(req[1].key, req[1].uid, max_upload_part_num))
    /\ ~Exists(SegName(req[1].key, req[1].uid, max_upload_part_num + 1))

\* The part numbers stored for an upload, the n lowest numbers of a set, the
\* part numbers of a listing, and a listing in ascending order of part
\* numbers (so without a number twice).
StoredNumbers(k, u) ==
    {n.part : n \in {m \in DOMAIN segments :
                        m.key = k /\ m.uid = u /\ m.part > 0}}
Lowest(S, n) == {x \in S : Cardinality({y \in S : y < x}) < n}
Listed(l) == {l[i].pn : i \in DOMAIN l}
Ascending(l) == \A i, j \in DOMAIN l : i < j => l[i].pn < l[j].pn

\* C19: the ListParts of an upload with N >= 2 parts and max-parts = N - 1
\* returns the N - 1 lowest-numbered parts, IsTruncated true and the number
\* of the last of them as NextPartNumberMarker; a ListParts with the
\* NextPartNumberMarker of a truncated page as part-number-marker goes on
\* where the page ended: the two pages together are the lowest-numbered
\* parts in ascending order, all the parts if the second page is not
\* truncated, and after a page of N - 1 parts the second page is the one
\* part that remains.
C19_PagedListing ==
    LET a == req[1]
        b == req[2]
        S == StoredNumbers(a.key, a.uid)
        N == Cardinality(S)
        both == a.listing \o b.listing
    IN /\ DoneWith(1, "ListParts") /\ a.status = "200" /\ N >= 2
              /\ a.pnm = NoParam /\ a.mp = Digits(N - 1) =>
            /\ Len(a.listing) = N - 1
            /\ Ascending(a.listing)
            /\ Listed(a.listing) = Lowest(S, N - 1)
            /\ a.truncated
            /\ a.next \in Listed(a.listing)
            /\ \A p \in Listed(a.listing) : p <= a.next
       /\ DoneWith(1, "ListParts") /\ a.status = "200" /\ a.truncated
              /\ DoneWith(2, "ListParts") /\ b.status = "200"
              /\ b.key = a.key /\ b.uid = a.uid
              /\ b.pnm = Digits(a.next) =>
            /\ Ascending(both)
            /\ Listed(both) = Lowest(S, Len(both))
            /\ (~b.truncated => Listed(both) = S)
            /\ (a.mp = Digits(N - 1) /\ b.mp = NoParam => Len(b.listing) = 1)


\* C20: what a ListParts returns are parts stored under key/uploadId/ with a
\* number as last path element, in ascending order of the numbers as
\* integers (part 10 after part 9): of the stored parts with a number
\* greater than the part-number-marker, the lowest-numbered ones up to the
\* limit.
C20_NumericOrder ==
    \A w \in Workers :
        LET r == req[w]
            after == {p \in StoredNumbers(r.key, r.uid) : p > r.marker}
        IN DoneWith(w, "ListParts") /\ r.status = "200" =>
              /\ Ascending(r.listing)
              /\ Listed(r.listing) = Lowest(after, r.maxn)
              /\ \A i \in DOMAIN r.listing :
                    /\ Exists(SegName(r.key, r.uid, r.listing[i].pn))
                    /\ r.listing[i].hash =
                          segments[SegName(r.key, r.uid, r.listing[i].pn)].hash


\* ---------------------------------------------------------------- C21..C25
\* The order of uploads: by key, uploads of one key by upload id.
UploadBefore(a, b) ==
    \/ NameBefore(KeyText(a.key), KeyText(b.key))
    \/ a.key = b.key /\ a.uid < b.uid

\* The upload comes after the markers of the request.
AfterMarkers(n, r) ==
    \/ r.keymarker = ""
    \/ NameBefore(KeyText(r.keymarker), KeyText(n.key))
    \/ n.key = r.keymarker /\ r.uidmarker # NoUploadId /\ n.uid > r.uidmarker

\* The uploads in progress that a listing request is about: the marker
\* objects whose key starts with the prefix and that come after the markers.
MatchingUploads(r) ==
    {n \in DOMAIN segments :
        /\ n.part = 0
        /\ StartsWith(KeyText(n.key), r.prefix)
        /\ AfterMarkers(n, r)}

\* The first uploads of a set in the order of uploads, n at most.
FirstUploads(S, n) ==
    {x \in S : Cardinality({y \in S : UploadBefore(y, x)}) < n}

\* C21: a ListUploads without delimiter returns the uploads after its
\* markers in ascending order of key and upload id, max-uploads at most and
\* the first ones; when more uploads match than max-uploads it is truncated
\* and NextKeyMarker and NextUploadIdMarker name the last upload returned,
\* so that the pages of a listing visit every upload exactly once.
C21_UploadPaging ==
    \A w \in Workers :
        LET r == req[w]
            M == MatchingUploads(r)
        IN DoneWith(w, "ListUploads") /\ r.status = "200" /\ segcontainer
              /\ r.delimiter = <<>> =>
            /\ \A i, j \in DOMAIN r.listing :
                  i < j => UploadBefore(r.listing[i], r.listing[j])
            /\ Range(r.listing) = FirstUploads(M, r.maxn)
            /\ r.truncated = (Cardinality(M) > r.maxn)
            /\ r.truncated =>
                  /\ r.nextkey = r.listing[Len(r.listing)].key
                  /\ r.next = r.listing[Len(r.listing)].uid

MatchingItems(r) ==
    IF r.op = "ListParts"
    THEN Cardinality({i \in DOMAIN PartListing(r.key, r.uid) :
                        PartListing(r.key, r.uid)[i].pn > r.marker})
    ELSE Cardinality(MatchingUploads(r))

\* C23: a ListParts or ListUploads asks the backend for one entry more than
\* its page size in a single GET of the segments container, and its
\* IsTruncated is true exactly when more items match than the page size
\* (not with exactly page-size items).
C23_TruncationFlag ==
    \A w \in Workers :
        LET r == req[w]
        IN r.pc = "done" /\ r.op \in {"ListParts", "ListUploads"}
              /\ r.status = "200" =>
            /\ r.limit = r.maxn + 1
            /\ Len(SelectSeq(r.calls, LAMBDA c : c = "GET segments")) = 1
            /\ r.truncated = (MatchingItems(r) > r.maxn)

\* The configured maximum of the page size of a listing.
ConfiguredMax(op) ==
    IF op = "ListParts" THEN max_parts_listing ELSE DEFAULT_MAX_UPLOADS

\* C24: a ListParts of an upload in progress, or a ListUploads, whose
\* max-parts or max-uploads is above the configured maximum and not above
\* 2^31 - 1 is no error: the listing
\* is done with the configured maximum, which the response reports as
\* MaxParts or MaxUploads, and returns that many entries at most.
C24_PageSizeClamped ==
    \A w \in Workers :
        LET r == req[w]
        IN r.pc = "done" /\ r.op \in {"ListParts", "ListUploads"}
              /\ IsDigits(r.mp)
              /\ NumeralAbove(Magnitude(r.mp), Digits(ConfiguredMax(r.op)))
              /\ ~NumeralAbove(Magnitude(r.mp), Digits(MAX_32BIT_INT))
              /\ BucketExists(r.bucket)
              /\ (r.op = "ListParts" => Exists(MarkerName(r.key, r.uid))) =>
            /\ r.status = "200"
            /\ r.maxn = ConfiguredMax(r.op)
            /\ r.limit = ConfiguredMax(r.op) + 1
            /\ Len(r.listing) <= ConfiguredMax(r.op)

\* A ListParts with max-parts one above the maximum has returned as many
\* parts as the maximum allows, the lowest ones, and is truncated.
C24_Witness ==
    /\ DoneWith(1, "ListParts")
    /\ req[1].mp = Digits(max_parts_listing + 1)
    /\ req[1].status = "200"
    /\ Len(req[1].listing) = max_parts_listing
    /\ req[1].truncated

\* The text p is the common prefix of the key text kt: it ends with the
\* first delimiter that kt has after the prefix of the request.
GroupsUnder(kt, prefix, d, p) ==
    /\ StartsWith(kt, prefix) /\ StartsWith(kt, p)
    /\ Len(p) >= Len(prefix) + Len(d)
    /\ SubSeq(p, Len(p) - Len(d) + 1, Len(p)) = d
    /\ \A j \in (Len(prefix) + 1)..(Len(p) - Len(d)) :
          SubSeq(kt, j, j + Len(d) - 1) # d

\* C25: in a ListUploads with a delimiter, an upload whose key has the
\* delimiter after the prefix is reported through a CommonPrefix only, the
\* key up to and including the first delimiter after the prefix; every
\* CommonPrefix is reported once and stands for an upload there is; the
\* other uploads are reported as Upload entries.
C25_CommonPrefixes ==
    \A w \in Workers :
        LET r == req[w]
            P == Range(r.prefixes)
            grouped(n) == \E p \in P :
                            GroupsUnder(KeyText(n.key), r.prefix, r.delimiter, p)
        IN DoneWith(w, "ListUploads") /\ r.status = "200"
              /\ r.delimiter # <<>> =>
            /\ \A i \in DOMAIN r.listing :
                  /\ ~grouped(r.listing[i])
                  /\ FirstAt(KeyText(r.listing[i].key), r.delimiter,
                             Len(r.prefix) + 1) = 0
            /\ \A p \in P : \E n \in MatchingUploads(r) :
                  GroupsUnder(KeyText(n.key), r.prefix, r.delimiter, p)
            /\ Cardinality(P) = Len(r.prefixes)
            /\ Cardinality(DOMAIN segments) <= r.limit =>
                  \A n \in MatchingUploads(r) :
                      \/ grouped(n)
                      \/ /\ FirstAt(KeyText(n.key), r.delimiter,
                                     Len(r.prefix) + 1) = 0
                         /\ r.truncated \/ n \in Range(r.listing)

\* Of the uploads of the keys object, dir/object and dir/sub/object, the
\* listing with the delimiter / reports the first as Upload and the other
\* two through the one CommonPrefix dir/; the listing with the prefix dir/
\* reports dir/object as Upload and the CommonPrefix dir/sub/.
C25_Witness ==
    /\ DoneWith(1, "ListUploads") /\ DoneWith(2, "ListUploads")
    /\ Cardinality(DOMAIN segments) = 3
    /\ req[1].delimiter = <<"/">> /\ req[1].prefix = <<>>
    /\ req[1].listing = <<MarkerName("object", 1)>>
    /\ req[1].prefixes = << <<"d", "/">> >>
    /\ req[2].delimiter = <<"/">>

\* ---------------------------------------------------------------- C26..C30
\* The place of a call among the backend calls of a request, 0 when the
\* request has not made it.
CallAt(r, c) ==
    IF \E i \in DOMAIN r.calls : r.calls[i] = c
    THEN CHOOSE i \in DOMAIN r.calls : r.calls[i] = c
    ELSE 0

\* C26: an UploadPartCopy reads the metadata of its source before it writes
\* the part; when the source fails a conditional header the request ends
\* with PreconditionFailed, when the range is not valid with the error of
\* an invalid range, and the part is not written; the conditional headers
\* go with the HEAD of the source only, never with the PUT of the part.
C26_CopySourceChecked ==
    /\ [](\A w \in Workers :
            LET r == req[w]
            IN r.op = "UploadPartCopy" =>
                /\ CallAt(r, "PUT part") > 0 =>
                      /\ CallAt(r, "HEAD src") > 0
                      /\ CallAt(r, "HEAD src") < CallAt(r, "PUT part")
                      /\ r.copy = "ok"
                /\ r.pc = "done" /\ CallAt(r, "HEAD src") > 0 =>
                      r.status = CASE r.copy = "precondition" -> "PreconditionFailed"
                                   [] r.copy = "range" -> "InvalidArgument"
                                   [] OTHER -> "200"
                /\ \A i \in DOMAIN r.condsent : r.condsent[i] = "HEAD src"
                /\ CopyConditional(r) /\ CallAt(r, "HEAD src") > 0 =>
                      r.condsent = <<"HEAD src">>)
    /\ [][\A w \in Workers :
            /\ req[w].op = "UploadPartCopy"
            /\ req[w].pc = "head_src"
            /\ req[w].copy # "ok"
            => /\ segments' = segments
               /\ req'[w].pc = "done"]_vars

\* A copy whose source failed its conditional headers has ended with
\* PreconditionFailed after the HEAD of the source, the part being absent.
C26_Witness ==
    /\ DoneWith(1, "UploadPartCopy")
    /\ req[1].copy = "precondition"
    /\ req[1].status = "PreconditionFailed"
    /\ req[1].condsent = <<"HEAD src">>
    /\ ~Exists(SegName(req[1].key, req[1].uid, req[1].pn))

\* The chunks of a body that are not blank lines.
Meaningful(out) == SelectSeq(out, LAMBDA c : c \notin {" ", "\n"})
Roots == {"CompleteMultipartUploadResult", "Error"}

\* C27: what a Complete passes on to the client while its manifest PUT is in
\* progress is blank, and all of it comes before the root element of the
\* document that ends the response: nothing follows the root, and the body
\* without its blank lines is the XML declaration and exactly one
\* CompleteMultipartUploadResult or Error.
C27_HeartbeatBeforeRoot ==
    /\ [](\A w \in Workers :
            LET r == req[w]
            IN r.op = "Complete" =>
                /\ \A i \in DOMAIN r.out :
                      /\ r.out[i] \in {Decl, " ", "\n"} \cup Roots
                      /\ r.out[i] = Decl <=> i = 1
                      /\ r.out[i] \in Roots => i = Len(r.out)
                /\ r.pc = "done" /\ CallAt(r, "PUT manifest") > 0 =>
                      Meaningful(r.out) = <<Decl, Document(r.status)>>
                /\ r.pc # "done" => Meaningful(r.out) \in {<<>>, <<Decl>>})
    /\ [][\A w \in Workers :
            /\ req[w].op = "Complete"
            /\ req[w].out # <<>>
            /\ req[w].out[Len(req[w].out)] \in Roots
            => req'[w].out = req[w].out \/ req'[w].pc # "done"]_vars

\* A Complete has passed on two blank chunks and then ended its response
\* with the result document.
C27_Witness ==
    /\ DoneWith(1, "Complete")
    /\ req[1].out = <<Decl, " ", " ", "\n", "CompleteMultipartUploadResult">>
    /\ req[1].http = "200"

\* The response of the Complete had started (something was passed on to the
\* client) when its manifest PUT failed.
FailedWhileStreaming(r) ==
    /\ r.op = "Complete" /\ r.pc = "done"
    /\ CallAt(r, "PUT manifest") > 0
    /\ r.status # "200"
    /\ Len(r.out) > 2

\* What the failure does not do: change the status line, attempt the DELETE
\* of the marker, write the manifest or remove the marker.
FailureLeavesUpload(r) ==
    /\ r.http = "200"
    /\ r.out[Len(r.out)] = "Error"
    /\ CallAt(r, "DELETE marker") = 0
    /\ r.calls[Len(r.calls)] = "PUT manifest"

\* C28 as stated: the error delivered in the body is InvalidPart when a
\* segment was not found and InvalidRequest with the error text of the
\* store otherwise.
C28_FailureInBody ==
    \A w \in Workers :
        LET r == req[w]
        IN FailedWhileStreaming(r) =>
            /\ FailureLeavesUpload(r)
            /\ IF PartMissing(r.key, r.uid, r.parts)
               THEN r.status = "InvalidPart"
               ELSE r.status = "InvalidRequest" /\ r.msg.err = "403 Forbidden"

\* C28, amended: when the manifest PUT of a Complete fails after the
\* response has started, the status line stays 200, the body ends with an
\* Error document and the DELETE of the marker is not attempted; the error
\* is InvalidPart when a segment was not found or its hash differs from the
\* claimed ETag, EntityTooSmall with the text of the store when a segment
\* but the last is under the minimum size, and InvalidRequest with the
\* error text of the store otherwise.
C28_FailureInBodyByCause ==
    \A w \in Workers :
        LET r == req[w]
        IN FailedWhileStreaming(r) =>
            /\ FailureLeavesUpload(r)
            /\ IF PartMissing(r.key, r.uid, r.parts)
                    \/ HashMismatch(r.key, r.uid, r.parts)
               THEN r.status = "InvalidPart"
               ELSE IF TooSmall(r.key, r.uid, r.parts)
               THEN /\ r.status = "EntityTooSmall"
                    /\ r.msg = BackendMessage(r.key, r.uid, r.parts)
               ELSE r.status = "InvalidRequest" /\ r.msg.err = "403 Forbidden"

\* A Complete whose segment the store refused after one blank chunk was
\* passed on: the body ends with the Error document, the marker is there.
C28_Witness ==
    /\ FailedWhileStreaming(req[1])
    /\ req[1].status = "InvalidRequest"
    /\ req[1].out = <<Decl, " ", "\n", "Error">>
    /\ Exists(MarkerOf(req[1]))

\* C29: the DeleteResult of a Delete Multiple Objects request lists the
\* results of the keys in the order of the keys in the request, whatever
\* the order in which the DELETEs complete.
C29_RequestOrder ==
    \A w \in Workers :
        DoneWith(w, "MultiDelete") /\ req[w].status = "200" =>
            \A i, j \in DOMAIN req[w].results :
                i < j => req[w].results[i].job < req[w].results[j].job

\* The least number of rounds of c that make n.
Ceil(n, c) == (n + c - 1) \div c

\* The DELETEs of a request in progress are no more than the pool has
\* threads.
PoolBounded ==
    \A w \in Workers :
        req[w].op = "MultiDelete" =>
            Cardinality(req[w].flight) <= multi_delete_concurrency

\* Every key of a request under way has its DELETE issued in the end, and
\* the request ends with its result.
DeletesTerminate ==
    \A w \in Workers :
        (req[w].op = "MultiDelete" /\ req[w].pc = "drain")
            ~> (/\ DoneWith(w, "MultiDelete")
                /\ req[w].status = "200"
                /\ req[w].issued = Len(req[w].dkeys))

\* C30 as stated: at no time are more than multi_delete_concurrency DELETEs
\* of a request in progress; no DELETE of a request with N keys is issued
\* later than in round ceil(N / concurrency), a DELETE being of the round
\* after that of the DELETE whose result made room for it; every key's
\* DELETE is issued in the end and the request ends with a result.
C30_PoolRounds ==
    /\ [](PoolBounded
          /\ \A w \in Workers : \A j \in DOMAIN req[w].round :
                req[w].round[j] <=
                    Ceil(Len(req[w].dkeys), multi_delete_concurrency))
    /\ DeletesTerminate

\* C30, amended: the pool bound and the termination as stated; the DELETEs
\* of N keys take at most ceil(N / concurrency) rounds when they complete in
\* the order in which they were issued, and at most N - concurrency + 1
\* rounds in any case.
C30_PoolRoundsInOrder ==
    /\ [](PoolBounded
          /\ \A w \in Workers : \A j \in DOMAIN req[w].round :
                LET r == req[w]
                    N == Len(r.dkeys)
                IN /\ r.inorder =>
                         r.round[j] <= Ceil(N, multi_delete_concurrency)
                   /\ r.round[j] <= N - multi_delete_concurrency + 1
                         \/ r.round[j] = 1)
    /\ DeletesTerminate

\* A request with four keys has ended: two DELETEs at a time, the third and
\* the fourth issued in the second round, four results.
C30_Witness ==
    /\ DoneWith(1, "MultiDelete")
    /\ Len(req[1].dkeys) = 4
    /\ req[1].inorder
    /\ req[1].round = <<1, 1, 2, 2>>
    /\ Len(req[1].results) = 4

\* ---------------------------------------------------------------- C31..C35
\* The responses of the middleware that are error documents.
ErrorDocuments == {e \in Raised : "ErrorResponse" \in Ancestors(e)}

\* C31: no exception raised while a request is built or handled leaves
\* __call__: an ErrorResponse is the response, any other exception is logged
\* and answered with InternalError, a NotS3Request hands the request to the
\* wrapped application; every request that is no NotS3Request ends with a
\* response of the handler or an error document.
C31_NoExceptionEscapes ==
    \A w \in Workers :
        LET r == req[w]
        IN r.op = "Call" /\ r.pc \in {"send", "done"} =>
            /\ r.pc = "done" => r.status # "escaped"
            /\ r.raised = "" => r.resp = "handler"
            /\ r.raised = "NotS3Request" => r.resp = "app" /\ ~r.logged
            /\ r.raised \in ErrorDocuments =>
                  /\ r.resp = r.raised
                  /\ r.logged = (r.raised = "InternalError")
            /\ r.raised = "ValueError" => r.resp = "InternalError" /\ r.logged
            /\ r.raised # "NotS3Request" =>
                  r.resp \in {"handler"} \cup ErrorDocuments

\* A handler has raised an error response, which was sent as it is, with
\* the transaction id.
C31_Witness ==
    /\ DoneWith(1, "Call")
    /\ req[1].ran
    /\ req[1].raised = "AccessDenied"
    /\ req[1].status = "AccessDenied"
    /\ req[1].idhdr

\* The handlers of a controller: the attributes named after a method that
\* are marked public.
IsHandler(c, m) ==
    \/ c = "Object" /\ m \in {"HEAD", "GET", "PUT", "POST", "DELETE", "OPTIONS"}
    \/ c = "MultiObjectDelete" /\ m = "POST"

\* C39: handle_request runs a handler only when the controller has an
\* attribute named after the method of the request and that attribute is
\* marked publicly accessible; for any other method it raises
\* MethodNotAllowed without running handler code. The ACL handler is
\* attached to the request before the handler runs.
C39_PublicHandlersOnly ==
    \A w \in Workers :
        LET r == req[w]
        IN r.op = "Call" =>
            /\ r.ran => IsHandler(r.controller, r.method) /\ r.acl
            /\ r.acl /\ r.pc # "handle" /\ ~IsHandler(r.controller, r.method) =>
                  ~r.ran /\ r.raised = "MethodNotAllowed"
            /\ r.acl /\ r.pc # "handle" /\ IsHandler(r.controller, r.method) =>
                  r.ran

\* A GETorHEAD request to an object: the controller has the attribute, which
\* is no public handler; the request was refused.
C39_Witness ==
    /\ DoneWith(1, "Call")
    /\ req[1].controller = "Object"
    /\ req[1].method = "GETorHEAD"
    /\ req[1].acl
    /\ ~req[1].ran
    /\ req[1].status = "MethodNotAllowed"

\* The errors of Complete that C32 names.
CompleteErrors ==
    {"MalformedXML", "BadDigest", "InvalidRequest", "InvalidPart",
     "InvalidPartOrder", "EntityTooSmall", "NoSuchBucket"}

\* C32: a Complete that ends with MalformedXML, BadDigest, InvalidRequest,
\* InvalidPart, InvalidPartOrder, EntityTooSmall or NoSuchBucket has changed
\* nothing: no step of it has written or removed an object (a Complete that
\* has changed the store ends with success), it has sent no DELETE, and the
\* marker it found is still there, so that the upload is still in progress.
C32_FailedCompleteKeepsUpload ==
    /\ [](\A w \in Workers :
            LET r == req[w]
            IN DoneWith(w, "Complete") /\ r.status \in CompleteErrors =>
                /\ \A i \in DOMAIN r.calls :
                      r.calls[i] \notin {"DELETE marker", "DELETE part",
                                         "DELETE object"}
                /\ r.status # "NoSuchBucket" =>
                      /\ Exists(MarkerName(r.key, r.uid))
                      /\ r.uid \notin terminated)
    /\ [][\A w \in Workers :
            /\ req[w].op = "Complete"
            /\ req[w].pc # "done"
            /\ segments' # segments \/ manifest' # manifest
            => /\ req'[w].op = "Complete"
               /\ \/ req'[w].pc = "delete_marker"
                  \/ req'[w].pc = "done" /\ req'[w].status = "200"]_vars
    /\ [][\A w \in Workers :
            req[w].op = "Complete" /\ req[w].pc = "delete_marker" =>
                req'[w].pc = "done" /\ req'[w].status = "200"]_vars

\* A Complete whose manifest the store refused has ended with
\* InvalidRequest; the marker and the part it named are still stored.
C32_Witness ==
    /\ DoneWith(1, "Complete")
    /\ req[1].status = "InvalidRequest"
    /\ req[1].calls[Len(req[1].calls)] = "PUT manifest"
    /\ Exists(MarkerName(req[1].key, req[1].uid))
    /\ Exists(SegName(req[1].key, req[1].uid, req[1].parts[1].pn))

\* C33: every segment that the manifest at a key names is a part object
\* stored in the segments container, in every state, whatever the
\* interleaving of Complete with Abort or with another Complete of the same
\* upload.
C33_ManifestSegmentsExist ==
    \A k \in Keys :
        manifest[k] # NoObject =>
            \A i \in DOMAIN manifest[k].segs :
                Exists(SegName(k, manifest[k].uid, manifest[k].segs[i].pn))

\* The elements of the DeleteResult of request r for the key at place j.
ElementsOf(r, j) == {i \in DOMAIN r.results : r.results[i].job = j}

\* The answers of the store that are no deletion nor a missing key.
FailureAnswers == {"403", "200 errors", "200 unparsable"}

\* A Delete Multiple Objects request that passed its checks and whose
\* deletes were run.
Ran(r) ==
    /\ r.op = "MultiDelete" /\ r.pc = "done" /\ r.status = "200"
    /\ r.dbody.head = "ok"

\* C34: the DeleteResult of a request with N keys that passed validation
\* has, quiet off, exactly N elements, one for each place of the list:
\* Deleted when the store deleted the key or had no such key, Error
\* otherwise; with quiet on it has the Error elements only.
C34_OneElementPerKey ==
    \A w \in Workers :
        LET r == req[w]
            N == Len(r.dkeys)
        IN Ran(r) =>
            /\ \A i \in DOMAIN r.results :
                  /\ r.results[i].job \in 1..N
                  /\ r.results[i].key = r.dkeys[r.results[i].job]
            /\ ~r.quiet => Len(r.results) = N
            /\ \A j \in 1..N :
                  /\ j \in DOMAIN r.answers
                  /\ IF r.answers[j] \in FailureAnswers
                     THEN /\ Cardinality(ElementsOf(r, j)) = 1
                          /\ \A i \in ElementsOf(r, j) : r.results[i].code # ""
                     ELSE IF r.quiet THEN ElementsOf(r, j) = {}
                     ELSE /\ Cardinality(ElementsOf(r, j)) = 1
                          /\ \A i \in ElementsOf(r, j) : r.results[i].code = ""

\* A request for the same missing key twice and a key the store denies,
\* quiet off: two Deleted elements and one Error.
C34_Witness ==
    /\ Ran(req[1])
    /\ ~req[1].quiet
    /\ req[1].dkeys = <<"object", "denied", "object">>
    /\ req[1].answers = <<"404", "403", "404">>
    /\ Len(req[1].results) = 3

\* C35: the failure of the delete of one key (an error response other than
\* NoSuchKey, a bulk delete that reports errors or whose result does not
\* parse) is an Error element for that key and nothing else: the request
\* still issues the delete of every other key and ends with 200.
C35_FailureOfOneKey ==
    \A w \in Workers :
        LET r == req[w]
            N == Len(r.dkeys)
        IN (/\ r.op = "MultiDelete" /\ r.pc = "done"
            /\ BucketExists(r.bucket)
            /\ r.dbody = GoodBody
            /\ N <= max_multi_delete_objects) =>
            /\ r.status = "200"
            /\ r.issued = N
            /\ DOMAIN r.answers = 1..N
            /\ \A j \in 1..N :
                  r.answers[j] \in FailureAnswers =>
                      \E i \in DOMAIN r.results :
                          /\ ElementsOf(r, j) = {i}
                          /\ r.results[i].key = r.dkeys[j]
                          /\ r.results[i].code =
                                IF r.answers[j] = "403" THEN "AccessDenied"
                                ELSE "SLODeleteError"
            /\ \A i \in DOMAIN r.results :
                  r.results[i].code # "" =>
                      r.answers[r.results[i].job] \in FailureAnswers

\* The delete of the first of three keys was denied; the two others were
\* deleted all the same.
C35_Witness ==
    /\ DoneWith(1, "MultiDelete")
    /\ req[1].status = "200"
    /\ Len(req[1].dkeys) = 3
    /\ req[1].dkeys[1] = "denied"
    /\ req[1].answers[1] = "403"
    /\ req[1].answers[2] \in {"204", "200"}
    /\ req[1].issued = 3

\* ---------------------------------------------------------------- C36..C40
\* No DELETE of a key was sent for request r.
NothingDeleted(r) ==
    /\ r.issued = 0 /\ r.flight = {} /\ r.answers = <<>> /\ r.queue = <<>>
    /\ \A i \in DOMAIN r.calls : r.calls[i] = "HEAD bucket"

\* C36: a request whose body is missing, is no document of the schema, has
\* an Object with an empty key, lists more than max_multi_delete_objects
\* keys, fails the Content-MD5 check or names a VersionId, fails as a whole
\* (MissingRequestBodyError, MalformedXML, UserKeyMustBeSpecified,
\* MalformedXML, BadDigest, S3NotImplemented) and no DELETE of a key is
\* sent; when the bucket check is answered with AccessDenied every key is
\* reported as an Error, with 200, and no DELETE is sent either.
C36_ValidatedAsAWhole ==
    \A w \in Workers :
        LET r == req[w]
            b == r.dbody
            N == Len(r.dkeys)
            versioned == b.ver \in 1..N
            faulty == \/ b.shape # "keys" \/ b.md5bad
                      \/ N > max_multi_delete_objects
        IN r.op = "MultiDelete" =>
            /\ faulty =>
                  /\ r.pc = "done"
                  /\ r.status \in {"MissingRequestBodyError", "MalformedXML",
                                    "UserKeyMustBeSpecified", "BadDigest"}
                  /\ NothingDeleted(r)
            /\ b.shape = "missing" => r.status = "MissingRequestBodyError"
            /\ b.shape # "missing" /\ b.md5bad => r.status = "BadDigest"
            /\ b.shape = "malformed" /\ ~b.md5bad => r.status = "MalformedXML"
            /\ b.shape = "nokey" /\ ~b.md5bad =>
                  r.status = "UserKeyMustBeSpecified"
            /\ b.shape = "keys" /\ ~b.md5bad /\ N > max_multi_delete_objects =>
                  r.status = "MalformedXML"
            /\ ~faulty /\ versioned /\ BucketExists(r.bucket) =>
                  /\ r.pc = "done"
                  /\ r.status = "S3NotImplemented"
                  /\ NothingDeleted(r)
            /\ ~faulty /\ ~versioned /\ BucketExists(r.bucket)
                  /\ b.head = "AccessDenied" =>
                  /\ r.pc = "done"
                  /\ r.status = "200"
                  /\ NothingDeleted(r)
                  /\ Len(r.results) = N
                  /\ \A j \in 1..N :
                        /\ r.results[j].key = r.dkeys[j]
                        /\ r.results[j].code = "AccessDenied"

\* A request with one key more than max_multi_delete_objects was refused
\* before anything was sent to the store.
C36_Witness ==
    /\ DoneWith(1, "MultiDelete")
    /\ Len(req[1].dkeys) = max_multi_delete_objects + 1
    /\ req[1].dbody = GoodBody
    /\ req[1].status = "MalformedXML"
    /\ req[1].calls = <<>>

\* C37: an Object DELETE ends with 204 when the bucket exists, whether the
\* key has no object, an object or a multipart object, and with
\* NoSuchBucket when the bucket does not exist; so two DELETEs of the same
\* key of the same bucket end with the same status.
C37_DeleteIdempotent ==
    /\ \A w \in Workers :
          DoneWith(w, "ObjectDelete") =>
              req[w].status = IF BucketExists(req[w].bucket) THEN "204"
                              ELSE "NoSuchBucket"
    /\ \A w1, w2 \in Workers :
          /\ DoneWith(w1, "ObjectDelete") /\ DoneWith(w2, "ObjectDelete")
          /\ req[w1].bucket = req[w2].bucket /\ req[w1].key = req[w2].key
          => req[w1].status = req[w2].status

\* The DELETE of a multipart object, answered 200 by the bulk deleter, and
\* a second DELETE of the key, answered 404: both ended with 204.
C37_Witness ==
    /\ DoneWith(1, "ObjectDelete") /\ DoneWith(2, "ObjectDelete")
    /\ req[1].bucket = "bucket" /\ req[2].bucket = "bucket"
    /\ req[1].vid = "" /\ req[2].vid = ""
    /\ req[1].backend = "200" /\ req[2].backend = "404"
    /\ req[1].status = "204" /\ req[2].status = "204"

\* The segments of the object of key k.
SegmentsOf(k) ==
    {SegName(k, manifest[k].uid, manifest[k].segs[i].pn) :
        i \in DOMAIN manifest[k].segs}

\* C38: the backend DELETE of a request without versionId on a bucket in
\* 'history' mode carries no multipart-manifest query and leaves every
\* segment in place; every other backend DELETE carries the query computed
\* for the object, and with it the store removes the segments of a
\* multipart object.
C38_HistoryKeepsParts ==
    /\ [](\A w \in Workers :
            req[w].op = "ObjectDelete" /\ req[w].sent # "" =>
                req[w].sent = IF req[w].vid = "" /\ req[w].history
                              THEN "absent" ELSE req[w].query)
    /\ [][\A w \in Workers :
            /\ req[w].op = "ObjectDelete" /\ req[w].pc = "delete_object"
            /\ req'[w].pc = "done" /\ req'[w].sent # ""
            => /\ req[w].vid = "" /\ req[w].history =>
                    /\ req'[w].sent = "absent"
                    /\ segments' = segments
               /\ ~(req[w].vid = "" /\ req[w].history) =>
                    /\ req'[w].sent = req[w].query
                    /\ req'[w].backend = "200" =>
                          /\ SegmentsOf(req[w].key) # {}
                          /\ SegmentsOf(req[w].key) \cap DOMAIN segments' = {}]_vars

\* A multipart object was deleted from a bucket in 'history' mode: the query
\* computed for it was not sent, the object is gone and its segment is there.
C38_Witness ==
    /\ DoneWith(1, "ObjectDelete")
    /\ req[1].vid = "" /\ req[1].history
    /\ req[1].query = "delete" /\ req[1].sent = "absent"
    /\ req[1].backend = "204" /\ req[1].status = "204"
    /\ manifest["object"] = NoObject
    /\ SegName("object", 1, 1) \in DOMAIN segments

\* The least place of f in the pipeline.
First(pipeline, f) ==
    CHOOSE i \in DOMAIN pipeline :
        /\ pipeline[i] = f
        /\ \A j \in DOMAIN pipeline : pipeline[j] = f => i <= j

\* The sequence q has all the filters of required, their first occurrences in
\* the order of required.
InOrder(q, required) ==
    /\ \A i \in DOMAIN required : required[i] \in Range(q)
    /\ \A i, j \in DOMAIN required :
          i < j => First(q, required[i]) <= First(q, required[j])

\* The filters between the first s3api and the first proxy-server.
Between(q) ==
    {q[i] : i \in {x \in DOMAIN q : /\ First(q, "s3api") < x
                                     /\ x < First(q, "proxy-server")}}

\* C40: check_filter_order raises ValueError exactly when a required filter
\* is not in the pipeline or the first occurrences of the required filters
\* are not in the required order, and changes nothing; check_pipeline, for a
\* pipeline with s3api before proxy-server, leaves multipart support on
\* only if 'slo' is between s3api and proxy-server, and raises ValueError
\* when auth checking is on and nothing is between them.
C40_FilterOrder ==
    /\ [](LET r == req[1]
          IN /\ r.op = "check_filter_order" =>
                  /\ r.raised \in {"", "ValueError"}
                  /\ r.raised = "ValueError" <=> ~InOrder(r.pipeline, r.required)
             /\ r.op = "check_pipeline" /\ r.conf.file
                  /\ InOrder(r.pipeline, <<"s3api", "proxy-server">>) =>
                  /\ r.slo_enabled =
                        (r.conf.allow_multipart_uploads
                            /\ "slo" \in Between(r.pipeline))
                  /\ r.conf.auth_pipeline_check /\ Between(r.pipeline) = {}
                        => r.raised = "ValueError")
    /\ [][/\ req'[1].pipeline = req[1].pipeline
          /\ segments' = segments /\ manifest' = manifest]_vars

\* check_pipeline found a second s3api and tempauth, but no slo, between
\* s3api and proxy-server: it raised nothing and turned multipart support
\* off.
C40_Witness ==
    /\ req[1].op = "check_pipeline"
    /\ req[1].pipeline = <<"s3api", "s3api", "tempauth", "proxy-server">>
    /\ req[1].conf = [file |-> TRUE, auth_pipeline_check |-> TRUE,
                      allow_multipart_uploads |-> TRUE]
    /\ req[1].raised = ""
    /\ ~req[1].slo_enabled

====
